---- MODULE Spec2Model ----
(***************************************************************************)
(* A model of the search and retrieval engine of dictpress: the TTL cache  *)
(* (src/cache.rs), the search cache key, and the do_search pipeline        *)
(* (src/handlers/search.rs, src/manager/mod.rs).                           *)
(*                                                                         *)
(* Strings are sequences of one-character strings, so that formatting,     *)
(* joining, splitting and lowercasing are computed as the code computes    *)
(* them.  Bytes are integers 0..255.  Option<T> is a sequence of length    *)
(* at most one: None is <<>> and Some(x) is <<x>>.                         *)
(***************************************************************************)
EXTENDS Integers, Sequences, FiniteSets, TLC

VARIABLES
    now,        \* SystemTime::now() in Unix seconds
    mode,       \* CacheBackend variant: "memory" or "hybrid"
    backend,    \* the backend's contents: key -> stored bytes (partial function)
    cLast,      \* cache harness: the last Cache call and what it returned
    cStored,    \* cache harness: key -> [T, v] of the last put not evicted since
    cExpired,   \* cache harness: keys for which a get has found the entry expired
    kq,         \* key harness: two search requests
    kk,         \* key harness: their cache keys, once computed
    cacheEnabled,   \* Ctx.cache is Some
    store,      \* the entry store: entries and relations
    procs,      \* the request tasks that run
    task,       \* per request task: its position in do_search and its locals
    fx,         \* function harness: the arguments of one call
    fy,         \* function harness: what the call returned, once made
    luaLock     \* per LuaTokenizer instance: the thread holding its Mutex<Lua>, or 0

cacheVars == <<cLast, cStored, cExpired>>
keyVars == <<kq, kk>>
searchVars == <<cacheEnabled, store, procs, task>>
callVars == <<fx, fy>>
vars == <<now, mode, backend, cacheVars, keyVars, searchVars, callVars, luaLock>>

(***************************************************************************)
(* Bounds                                                                  *)
(***************************************************************************)
\* the clock starts just below a byte boundary so that the timestamp
\* prefix uses more than one byte during a run
ClockStart == 254
\* the configured TTL in seconds (CacheConfig.ttl after parse_duration)
TTL == 2
\* the clock runs until every entry put at the start is past its TTL
MaxTick == TTL + 2
MaxPayloadLen == 1
\* the longest types list and tags list of a request
MaxTypes == 2
MaxTags == 2

(***************************************************************************)
(* Option                                                                  *)
(***************************************************************************)
None == <<>>
Some(x) == <<x>>

(***************************************************************************)
(* Strings                                                                 *)
(***************************************************************************)
\* the characters in use, in byte order
Alphabet ==
    <<" ", "'", "*", ",", "-", "0", "1", "2", "3", "4", "5", "6", "7", "8",
      "9", ":", "A", "B", "a", "b", "e", "f", "s", "x", "y">>

\* the position of a character in byte order
CharCode(c) == CHOOSE i \in 1..Len(Alphabet) : Alphabet[i] = c

\* char::to_lowercase
LowerChar(c) == IF c = "A" THEN "a" ELSE IF c = "B" THEN "b" ELSE c

\* str::to_lowercase
ToLowercase(s) == [i \in 1..Len(s) |-> LowerChar(s[i])]

\* char::is_whitespace
IsWhitespace(c) == c = " "

\* char::is_ascii_punctuation
IsAsciiPunctuation(c) == c \in {"'", "*", ",", "-", ":"}

RECURSIVE TrimStart(_)
TrimStart(s) ==
    IF s # <<>> /\ IsWhitespace(Head(s)) THEN TrimStart(Tail(s)) ELSE s

RECURSIVE TrimEnd(_)
TrimEnd(s) ==
    IF s # <<>> /\ IsWhitespace(s[Len(s)])
    THEN TrimEnd(SubSeq(s, 1, Len(s) - 1)) ELSE s

\* str::trim
Trim(s) == TrimEnd(TrimStart(s))

\* slice::join
RECURSIVE Join(_, _)
Join(ss, sep) ==
    IF ss = <<>> THEN <<>>
    ELSE IF Len(ss) = 1 THEN ss[1]
    ELSE ss[1] \o sep \o Join(Tail(ss), sep)

\* str::split_whitespace: the maximal runs of non-whitespace characters
RECURSIVE SplitFrom(_, _, _)
SplitFrom(s, i, cur) ==
    IF i > Len(s) THEN (IF cur = <<>> THEN <<>> ELSE <<cur>>)
    ELSE IF IsWhitespace(s[i])
         THEN (IF cur = <<>> THEN <<>> ELSE <<cur>>) \o SplitFrom(s, i + 1, <<>>)
         ELSE SplitFrom(s, i + 1, Append(cur, s[i]))

SplitWhitespace(s) == SplitFrom(s, 1, <<>>)

\* the order of String: byte-wise lexicographic
RECURSIVE StrLess(_, _)
StrLess(a, b) ==
    IF b = <<>> THEN FALSE
    ELSE IF a = <<>> THEN TRUE
    ELSE IF CharCode(Head(a)) # CharCode(Head(b))
         THEN CharCode(Head(a)) < CharCode(Head(b))
         ELSE StrLess(Tail(a), Tail(b))

RECURSIVE InsertSorted(_, _)
InsertSorted(x, sorted) ==
    IF sorted = <<>> THEN <<x>>
    ELSE IF StrLess(x, Head(sorted)) THEN <<x>> \o sorted
    ELSE <<Head(sorted)>> \o InsertSorted(x, Tail(sorted))

RECURSIVE SortFrom(_, _)
SortFrom(ss, i) ==
    IF i = 0 THEN <<>> ELSE InsertSorted(ss[i], SortFrom(ss, i - 1))

Unsorted(ss) == ss

\* Vec<String>::sort
SortStrings(ss) == SortFrom(ss, Len(ss))

Digit(d) == Alphabet[CharCode("0") + d]

RECURSIVE NatToString(_)
NatToString(n) ==
    IF n < 10 THEN <<Digit(n)>> ELSE Append(NatToString(n \div 10), Digit(n % 10))

\* Display for i32
IntToString(n) == IF n < 0 THEN <<"-">> \o NatToString(0 - n) ELSE NatToString(n)

(***************************************************************************)
(* src/cache.rs                                                            *)
(***************************************************************************)
TTL_PREFIX_SIZE == 8

RECURSIVE ByteAt(_, _)
ByteAt(n, i) == IF i = 1 THEN n % 256 ELSE ByteAt(n \div 256, i - 1)

\* buf.put_u64_le(now)
PutU64Le(n) == [i \in 1..TTL_PREFIX_SIZE |-> ByteAt(n, i)]

RECURSIVE FromLeBytesFrom(_, _)
FromLeBytesFrom(b, i) ==
    IF i > Len(b) THEN 0 ELSE b[i] + 256 * FromLeBytesFrom(b, i + 1)

\* u64::from_le_bytes(raw[..TTL_PREFIX_SIZE])
FromLeBytes(b) == FromLeBytesFrom(b, 1)

\* now.saturating_sub(created_at)
SaturatingSub(a, b) == IF a > b THEN a - b ELSE 0

ExpiredOnlyAtBoundary(t, created_at) == SaturatingSub(t, created_at) = TTL + 1

ExpiredInclusive(t, created_at) == SaturatingSub(t, created_at) >= TTL

\* the time gate of Cache::get
Expired(t, created_at) == SaturatingSub(t, created_at) > TTL

PayloadOfOffByOne(raw) == SubSeq(raw, TTL_PREFIX_SIZE, Len(raw))

\* raw.slice(TTL_PREFIX_SIZE..)
PayloadOf(raw) == SubSeq(raw, TTL_PREFIX_SIZE + 1, Len(raw))

\* the backend lookup of Cache::get: a hybrid backend may fail the read,
\* which is logged and turned into None
BackendGet(bk, key, readErr) ==
    IF readErr \/ key \notin DOMAIN bk THEN None ELSE Some(bk[key])

\* Cache::get
CacheGet(bk, key, t, readErr) ==
    LET raw == BackendGet(bk, key, readErr) IN
    IF raw = None THEN None
    ELSE IF Len(raw[1]) < TTL_PREFIX_SIZE THEN None
    ELSE IF Expired(t, FromLeBytes(SubSeq(raw[1], 1, TTL_PREFIX_SIZE))) THEN None
    ELSE Some(PayloadOf(raw[1]))

CachePutIfAbsent(bk, key, t, value) ==
    [k \in DOMAIN bk \cup {key} |->
        IF k \in DOMAIN bk THEN bk[k] ELSE PutU64Le(t) \o value]

\* Cache::put: the backend's contents after the insert
CachePut(bk, key, t, value) ==
    [k \in DOMAIN bk \cup {key} |->
        IF k = key THEN PutU64Le(t) \o value ELSE bk[k]]

\* md5::compute followed by {:x}: the digest is kept symbolic, distinct
\* inputs have distinct digests
Md5Hex(s) == <<s>>

\* make_search_cache_key
make_search_cache_key(q) ==
    LET types == SortStrings(q.types)
        tags == SortStrings(q.tags)
        key == <<"s">> \o <<":">> \o q.from_lang \o <<":">> \o q.to_lang
               \o <<":">> \o Trim(ToLowercase(q.query))
               \o <<":">> \o Join(types, <<",">>)
               \o <<":">> \o Join(tags, <<",">>)
               \o <<":">> \o q.status
               \o <<":">> \o IntToString(q.page)
               \o <<":">> \o IntToString(q.per_page)
    IN <<"s", ":">> \o Md5Hex(key)

\* capacity eviction by the backend
BackendEvict(bk, key) == [k \in DOMAIN bk \ {key} |-> bk[k]]

\* read errors exist only in the hybrid backend (the disk tier)
ReadOutcomes == IF mode = "hybrid" THEN BOOLEAN ELSE {FALSE}

(***************************************************************************)
(* The cache on its own: callers put and get byte payloads while the       *)
(* clock advances and the backend evicts.                                  *)
(***************************************************************************)
Bytes == {0, 255}

RECURSIVE SeqsUpTo(_, _)
SeqsUpTo(S, n) ==
    IF n = 0 THEN {<<>>}
    ELSE LET shorter == SeqsUpTo(S, n - 1) IN
         shorter \cup {Append(s, x) : s \in shorter, x \in S}

Payloads == SeqsUpTo(Bytes, MaxPayloadLen)

CKeys == {<<"k", "1">>, <<"k", "2">>}

EmptyMap == [k \in {} |-> <<>>]

\* the parts of the state a specification does not use
KeyIdle == kq = <<>> /\ kk = <<>>
CacheIdle == cLast = [op |-> "none"] /\ cStored = EmptyMap /\ cExpired = {}
SearchIdle == cacheEnabled = FALSE /\ store = <<>> /\ procs = {} /\ task = <<>>
CallIdle == fx = <<>> /\ fy = <<>>
LockIdle == luaLock = <<>>

CInit ==
    /\ now = ClockStart
    /\ mode \in {"memory", "hybrid"}
    /\ backend = EmptyMap
    /\ CacheIdle
    /\ KeyIdle
    /\ SearchIdle
    /\ CallIdle
    /\ LockIdle

Tick ==
    /\ now < ClockStart + MaxTick
    /\ now' = now + 1
    /\ UNCHANGED <<callVars, luaLock, mode, backend, cacheVars, keyVars, searchVars>>

CPut(k, v) ==
    /\ backend' = CachePut(backend, k, now, v)
    /\ cStored' = [x \in DOMAIN cStored \cup {k} |->
                      IF x = k THEN [T |-> now, v |-> v] ELSE cStored[x]]
    /\ cExpired' = cExpired \ {k}
    /\ cLast' = [op |-> "put", key |-> k]
    /\ UNCHANGED <<callVars, luaLock, now, mode, keyVars, searchVars>>

CGet(k, readErr) ==
    LET res == CacheGet(backend, k, now, readErr)
        raw == BackendGet(backend, k, readErr)
        foundExpired ==
            /\ raw # None
            /\ Len(raw[1]) >= TTL_PREFIX_SIZE
            /\ res = None
    IN
    /\ cLast' = [op |-> "get", key |-> k, t |-> now, res |-> res,
                 returned |-> (raw # None), wasExpired |-> (k \in cExpired)]
    /\ cExpired' = IF foundExpired THEN cExpired \cup {k} ELSE cExpired
    /\ UNCHANGED <<callVars, luaLock, now, mode, backend, cStored, keyVars, searchVars>>

CEvict(k) ==
    /\ k \in DOMAIN backend
    /\ backend' = BackendEvict(backend, k)
    /\ cStored' = [x \in DOMAIN cStored \ {k} |-> cStored[x]]
    /\ UNCHANGED <<callVars, luaLock, now, mode, cLast, cExpired, keyVars, searchVars>>

CNext ==
    \/ Tick
    \/ \E k \in CKeys, v \in Payloads : CPut(k, v)
    \/ \E k \in CKeys, e \in ReadOutcomes : CGet(k, e)
    \/ \E k \in CKeys : CEvict(k)

SpecCache == CInit /\ [][CNext]_vars

\* the last call was a get of a key whose put is still held by the backend
\* and the backend returned it
GotStored ==
    /\ cLast.op = "get"
    /\ cLast.key \in DOMAIN cStored
    /\ cLast.returned

\* C1: a value put at time T and still held by the backend is returned by
\* get at every time t with t - T <= TTL and is absent (None) at every time
\* t with t - T > TTL.
C1_TTLBoundary ==
    GotStored =>
        ((cLast.t - cStored[cLast.key].T <= TTL) <=> (cLast.res # None))

\* a get one second after the TTL ran out finds the held entry absent
C1_Witness ==
    /\ GotStored
    /\ cLast.t - cStored[cLast.key].T = TTL + 1
    /\ cLast.res = None

\* C2: put(k, v) followed by get(k) within the TTL, with no put to k and no
\* eviction in between, returns exactly v: the timestamp prefix is not
\* visible and no payload byte is lost or altered.
C2_RoundTrip ==
    (GotStored /\ cLast.t - cStored[cLast.key].T <= TTL) =>
        /\ cLast.res = Some(cStored[cLast.key].v)
        /\ Len(backend[cLast.key]) = TTL_PREFIX_SIZE + Len(cStored[cLast.key].v)

\* the empty payload made the round trip after the clock moved
C2_Witness ==
    /\ GotStored
    /\ cStored[cLast.key].v = <<>>
    /\ cLast.t > cStored[cLast.key].T
    /\ cLast.res = Some(<<>>)

\* C3: once a get of k has found the entry expired, every later get of k
\* returns None until a new put to k, although the backend still holds the
\* stale bytes.
C3_ExpiryPermanent ==
    (cLast.op = "get" /\ cLast.wasExpired) => cLast.res = None

\* a second get of an expired key whose stale bytes are still in the backend
C3_Witness ==
    /\ cLast.op = "get"
    /\ cLast.wasExpired
    /\ cLast.returned
    /\ cLast.key \in DOMAIN backend
    /\ cLast.t - FromLeBytes(SubSeq(backend[cLast.key], 1, TTL_PREFIX_SIZE)) > TTL + 1

(***************************************************************************)
(* The cache key on its own: make_search_cache_key applied to two search   *)
(* requests.                                                               *)
(***************************************************************************)
Str(c) == <<c>>

TypeNames == {<<"b">>, <<"a", "b">>}
TagNames == {<<"x">>, <<"y">>}

KeyQueries ==
    [query : {<<"a">>, <<"B">>},
     from_lang : {Str("e")},
     to_lang : {Str("f")},
     types : SeqsUpTo(TypeNames, MaxTypes),
     tags : SeqsUpTo(TagNames, MaxTags),
     status : {<<>>},
     page : {1},
     per_page : {0}]

KInit ==
    /\ now = ClockStart
    /\ mode = "memory"
    /\ backend = EmptyMap
    /\ CacheIdle
    /\ kq \in KeyQueries \X KeyQueries
    /\ kk = <<>>
    /\ SearchIdle
    /\ CallIdle
    /\ LockIdle

MakeKeys ==
    /\ kk = <<>>
    /\ kk' = <<make_search_cache_key(kq[1]), make_search_cache_key(kq[2])>>
    /\ UNCHANGED <<callVars, luaLock, now, mode, backend, cacheVars, kq, searchVars>>

KNext == MakeKeys

SpecKey == KInit /\ [][KNext]_vars

Count(ss, x) == Cardinality({i \in 1..Len(ss) : ss[i] = x})

\* two lists are permutations of each other
IsPermutation(a, b) ==
    /\ Len(a) = Len(b)
    /\ \A i \in 1..Len(a) : Count(a, a[i]) = Count(b, a[i])

\* C5: two search requests equal in from_lang, to_lang, query, status, page
\* and per_page, whose types lists and tags lists are permutations of each
\* other, get the identical cache key.
C5_KeyStability ==
    (/\ kk # <<>>
     /\ kq[1].from_lang = kq[2].from_lang
     /\ kq[1].to_lang = kq[2].to_lang
     /\ kq[1].query = kq[2].query
     /\ kq[1].status = kq[2].status
     /\ kq[1].page = kq[2].page
     /\ kq[1].per_page = kq[2].per_page
     /\ IsPermutation(kq[1].types, kq[2].types)
     /\ IsPermutation(kq[1].tags, kq[2].tags))
    => kk[1] = kk[2]

\* the keys of two requests whose types and tags are in different orders
C5_Witness ==
    /\ kk # <<>>
    /\ kq[1].query = kq[2].query
    /\ kq[1].types # kq[2].types
    /\ kq[1].tags # kq[2].tags
    /\ Len(kq[1].types) = 2
    /\ IsPermutation(kq[1].types, kq[2].types)
    /\ IsPermutation(kq[1].tags, kq[2].tags)
    /\ kk[1] = kk[2]

(***************************************************************************)
(* Configuration: languages and the tokenizer registry                     *)
(***************************************************************************)
EN == Str("e")
FR == Str("f")
ES == Str("s")
YI == Str("y")

\* Ctx.langs / Manager.langs: language id -> tokenizer identity
\* ES names a script that is not in the registry; YI has a script of its own
Langs ==
    [l \in {EN, FR, ES, YI} |->
        IF l = EN THEN "simple"
        ELSE IF l = FR THEN "lua:f"
        ELSE IF l = ES THEN "lua:s"
        ELSE "lua:y"]

\* the registry built by load_all
Tokenizers == {"simple", "default:english", "lua:f", "lua:y"}

\* the LuaTokenizer instances of the registry
LuaInstances == {tk \in Tokenizers : tk \in {"lua:f", "lua:s", "lua:y"}}

Ok(v) == [ok |-> TRUE, v |-> v]
Err(kind, message) == [ok |-> FALSE, kind |-> kind, message |-> message]

\* SimpleTokenizer::tokenize
SimpleTokenize(text) ==
    [i \in 1..Len(SplitWhitespace(text)) |-> ToLowercase(SplitWhitespace(text)[i])]

SimpleToQueryKeepsCase(text) == Join(SplitWhitespace(text), <<" ">>)

\* SimpleTokenizer::to_query
SimpleToQuery(text) ==
    Join([i \in 1..Len(SplitWhitespace(text)) |->
             ToLowercase(SplitWhitespace(text)[i])], <<" ">>)

\* Stemmer::stem for the English algorithm, as far as the words in use go:
\* a plural s is removed
Stem(word) ==
    IF Len(word) > 1 /\ word[Len(word)] = "s" THEN SubSeq(word, 1, Len(word) - 1)
    ELSE word

\* DefaultTokenizer::tokenize
DefaultTokenize(text) ==
    [i \in 1..Len(SplitWhitespace(text)) |->
        Stem(ToLowercase(SplitWhitespace(text)[i]))]

\* DefaultTokenizer::to_query
DefaultToQuery(text) ==
    LET terms == [i \in 1..Len(SplitWhitespace(text)) |->
                     Stem(ToLowercase(SplitWhitespace(text)[i]))]
    IN Join(terms, <<" ">>)

\* what a call of a script's M.query can come to: the query of the simple
\* normalisation, an empty or a blank string, or a runtime error
LuaQueryOutcomes(text) ==
    {Ok(SimpleToQuery(text)), Ok(<<>>), Ok(<<" ">>),
     Err("Tokenizer", "tokenizer error: lua error")}

\* the outcomes of Tokenizer::to_query for a registered tokenizer
ToQueryOutcomes(tk, text) ==
    IF tk = "simple" THEN {Ok(SimpleToQuery(text))}
    ELSE IF tk = "default:english" THEN {Ok(DefaultToQuery(text))}
    ELSE LuaQueryOutcomes(text)

\* what a call of a script's M.tokenize can come to
LuaTokenizeOutcomes(text) ==
    {Ok(SimpleTokenize(text)), Err("Tokenizer", "tokenizer error: lua error")}

\* the outcomes of Tokenizer::tokenize for a registered tokenizer
TokenizeOutcomes(tk, text) ==
    IF tk = "simple" THEN {Ok(SimpleTokenize(text))}
    ELSE IF tk = "default:english" THEN {Ok(DefaultTokenize(text))}
    ELSE LuaTokenizeOutcomes(text)

\* Manager::get_tokenizer
get_tokenizer(lang_id) ==
    IF lang_id \notin DOMAIN Langs THEN None
    ELSE IF Langs[lang_id] \in Tokenizers THEN Some(Langs[lang_id])
    ELSE None

\* Manager::to_fts_query: the possible results
to_fts_query(query, lang_id) ==
    IF get_tokenizer(lang_id) = None
    THEN {Err("UnknownLang", "unknown language")}
    ELSE ToQueryOutcomes(get_tokenizer(lang_id)[1], query)

(***************************************************************************)
(* The entry store                                                         *)
(***************************************************************************)
STATUS_ENABLED == <<"e", "n", "a", "b", "l", "e", "d">>

StoreEntries ==
    {[id |-> 1, guid |-> "g1", lang |-> EN, content |-> <<Str("a")>>,
      tokens |-> Str("a"), status |-> STATUS_ENABLED],
     [id |-> 2, guid |-> "g2", lang |-> FR, content |-> <<Str("b")>>,
      tokens |-> Str("b"), status |-> STATUS_ENABLED],
     [id |-> 3, guid |-> "g3", lang |-> EN, content |-> <<Str("a"), Str("y")>>,
      tokens |-> <<"a", " ", "y">>, status |-> STATUS_ENABLED]}

StoreRelations ==
    {[id |-> 1, from_id |-> 1, to_id |-> 2, types |-> <<Str("b")>>,
      tags |-> <<>>, weight |-> 0, status |-> STATUS_ENABLED],
     [id |-> 2, from_id |-> 1, to_id |-> 3, types |-> <<Str("b")>>,
      tags |-> <<>>, weight |-> 1, status |-> STATUS_ENABLED],
     [id |-> 3, from_id |-> 2, to_id |-> 1, types |-> <<Str("b")>>,
      tags |-> <<>>, weight |-> 0, status |-> STATUS_ENABLED]}

Range(f) == {f[i] : i \in DOMAIN f}

Min(a, b) == IF a < b THEN a ELSE b

\* the elements of a set of records in ascending order of a rank (a
\* function on the set)
RECURSIVE SortedBy(_, _)
SortedBy(S, rank) ==
    IF S = {} THEN <<>>
    ELSE LET m == CHOOSE x \in S : \A y \in S : rank[x] <= rank[y]
         IN <<m>> \o SortedBy(S \ {m}, rank)

\* the full-text match of the search query: every term of the query is a
\* token of the entry
FtsMatch(tokens, fts_query) ==
    \A i \in 1..Len(SplitWhitespace(fts_query)) :
        SplitWhitespace(fts_query)[i] \in Range(SplitWhitespace(tokens))

\* a store row as the Entry struct of models.rs
EntryRow(e, total) ==
    [id |-> e.id, guid |-> e.guid, content |-> e.content, lang |-> e.lang,
     tokens |-> e.tokens, status |-> e.status, relations |-> <<>>,
     total_relations |-> 0, total |-> total, from_id |-> 0,
     relation_id |-> 0, relation |-> None]

\* the search query of queries.sql: the matches in from_lang with the
\* status, each carrying the total number of matches, after offset and limit
SearchRows(st, from_lang, fts_query, status, offset, limit) ==
    LET matches == {e \in st.entries :
                       /\ e.lang = from_lang
                       /\ e.status = status
                       /\ FtsMatch(e.tokens, fts_query)}
        all == SortedBy(matches, [e \in matches |-> e.id])
        first == IF offset < 0 THEN 1 ELSE offset + 1
        last == IF limit < 0 THEN Len(all)
                ELSE IF first + limit - 1 > Len(all) THEN Len(all)
                ELSE first + limit - 1
        page == SubSeq(all, first, last)
    IN [i \in 1..Len(page) |-> EntryRow(page[i], Cardinality(matches))]

EmptyFtsUntrimmed(fts_query) == fts_query = <<>>

\* Manager::search, line 95
EmptyFts(fts_query) == Trim(fts_query) = <<>>

\* Manager::search: the possible results; fts is the translated query, for
\* the record of the request
ManagerSearch(st, sq, offset, limit) ==
    IF sq.from_lang \notin DOMAIN Langs
    THEN {Err("UnknownLang", "unknown language") @@ [fts |-> None]}
    ELSE UNION {
        IF ~fts.ok THEN {fts @@ [fts |-> None]}
        ELSE IF EmptyFts(fts.v)
        THEN {Err("Validation", "invalid search query") @@ [fts |-> Some(fts.v)]}
        ELSE LET status == IF sq.status = <<>> THEN STATUS_ENABLED ELSE sq.status
                 results == SearchRows(st, sq.from_lang, fts.v, status, offset, limit)
                 total == IF results = <<>> THEN 0 ELSE results[1].total
             IN {Err("Db", "database error") @@ [fts |-> Some(fts.v)],
                 Ok(<<results, total>>) @@ [fts |-> Some(fts.v)]}
        : fts \in to_fts_query(sq.query, sq.from_lang)}

\* the rows of the search-relations query of queries.sql for the root ids:
\* the relations whose target passes the filters, by root and ascending
\* weight, each carrying the root's unlimited count, at most max_per_type
\* per type when that is positive, content cut to max_content_items
RelationRows(st, ids, rq) ==
    LET target(r) == CHOOSE e \in st.entries : e.id = r.to_id
        shares(a, b) == a = <<>> \/ Range(a) \cap Range(b) # {}
        passes(r) ==
            /\ r.from_id \in ids
            /\ \E e \in st.entries : e.id = r.to_id
            /\ rq.to_lang = <<>> \/ target(r).lang = rq.to_lang
            /\ shares(rq.types, r.types)
            /\ shares(rq.tags, r.tags)
            /\ rq.status = <<>> \/ (r.status = rq.status /\ target(r).status = rq.status)
        all == {r \in st.relations : passes(r)}
        rank == [r \in all |-> (r.from_id * 100 + r.weight) * 100 + r.id]
        before(r) == {o \in all : o.from_id = r.from_id /\ o.types = r.types
                                  /\ rank[o] < rank[r]}
        kept == {r \in all : rq.max_per_type <= 0
                             \/ Cardinality(before(r)) < rq.max_per_type}
        cut(c) == IF rq.max_content_items > 0 /\ Len(c) > rq.max_content_items
                  THEN SubSeq(c, 1, rq.max_content_items) ELSE c
        row(r) == [EntryRow(target(r), 0) EXCEPT
                      !.content = cut(@),
                      !.from_id = r.from_id,
                      !.relation_id = r.id,
                      !.total_relations =
                          Cardinality({o \in all : o.from_id = r.from_id})]
                  @@ [relation_types |-> r.types, relation_weight |-> r.weight,
                      relation_status |-> r.status]
        sorted == SortedBy(kept, [r \in kept |-> rank[r]])
    IN [i \in 1..Len(sorted) |-> row(sorted[i])]

\* the index of the entry the id_map of load_relations holds for an id
IdMapGet(entries, id) ==
    IF \E i \in 1..Len(entries) : entries[i].id = id
    THEN Some(CHOOSE i \in 1..Len(entries) :
                 /\ entries[i].id = id
                 /\ \A j \in 1..Len(entries) : entries[j].id = id => j <= i)
    ELSE None

RECURSIVE AttachFromCountsAttached(_, _, _)
AttachFromCountsAttached(entries, rows, i) ==
    IF i > Len(rows) THEN entries
    ELSE LET r == [rows[i] EXCEPT !.relation =
                      Some([id |-> rows[i].relation_id,
                            types |-> rows[i].relation_types,
                            weight |-> rows[i].relation_weight,
                            status |-> rows[i].relation_status])]
             idx == IdMapGet(entries, r.from_id)
         IN IF idx = None THEN AttachFromCountsAttached(entries, rows, i + 1)
            ELSE AttachFromCountsAttached(
                [entries EXCEPT ![idx[1]] =
                    [@ EXCEPT !.total_relations = Len(entries[idx[1]].relations) + 1,
                              !.relations = Append(@, r)]],
                rows, i + 1)

\* the attach loop of load_relations, from row i on
RECURSIVE AttachFrom(_, _, _)
AttachFrom(entries, rows, i) ==
    IF i > Len(rows) THEN entries
    ELSE LET r == [id |-> rows[i].id, guid |-> rows[i].guid,
                   content |-> rows[i].content, lang |-> rows[i].lang,
                   tokens |-> rows[i].tokens, status |-> rows[i].status,
                   relations |-> <<>>,
                   total_relations |-> rows[i].total_relations,
                   total |-> rows[i].total, from_id |-> rows[i].from_id,
                   relation_id |-> rows[i].relation_id,
                   relation |-> Some([id |-> rows[i].relation_id,
                                      types |-> rows[i].relation_types,
                                      weight |-> rows[i].relation_weight,
                                      status |-> rows[i].relation_status])]
             idx == IdMapGet(entries, r.from_id)
         IN IF idx = None THEN AttachFrom(entries, rows, i + 1)
            ELSE AttachFrom(
                [entries EXCEPT ![idx[1]] =
                    [@ EXCEPT
                       !.total_relations =
                           IF entries[idx[1]].relations = <<>>
                           THEN r.total_relations ELSE @,
                       !.relations = Append(@, r)]],
                rows, i + 1)

\* Manager::load_relations: the possible results
LoadRelations(st, entries, rq) ==
    IF entries = <<>> THEN {Ok(entries)}
    ELSE LET ids == {entries[i].id : i \in 1..Len(entries)}
             cleared == [i \in 1..Len(entries) |->
                            [entries[i] EXCEPT !.relations = <<>>]]
         IN {Err("Db", "database error"),
             Ok(AttachFrom(cleared, RelationRows(st, ids, rq), 1))}

(***************************************************************************)
(* src/handlers/mod.rs                                                     *)
(***************************************************************************)
BAD_REQUEST == 400
INTERNAL_SERVER_ERROR == 500

\* ApiErr::new
ApiErr(message, status) == [ok |-> FALSE, message |-> message, status |-> status]

ApiErrDropped(e) ==
    Ok([entries |-> <<>>, page |-> 1, per_page |-> 0, total |-> 0,
        total_pages |-> 0])

\* impl From<E> for ApiErr
ApiErrFrom(e) == ApiErr(e.message, INTERNAL_SERVER_ERROR)

api_default_per_page == 10
api_max_per_page == 20
site_default_per_page == 10
site_max_per_page == 20
site_max_relations_per_type == 5
site_max_content_items == 5

I32_MAX == 2147483647
I32_MIN == -2147483647 - 1

\* i32 addition in two's complement: the sum modulo 2^32
WrappingAdd(x, y) ==
    IF x > 0 /\ y > 0 /\ x > I32_MAX - y THEN (x + I32_MIN) + (y + I32_MIN)
    ELSE IF x < 0 /\ y < 0 /\ x < I32_MIN - y THEN (x - I32_MIN) + (y - I32_MIN)
    ELSE x + y

\* i32 multiplication in two's complement by a multiplier that is not
\* negative: the product modulo 2^32
RECURSIVE WrappingMul(_, _)
WrappingMul(a, b) ==
    IF b = 0 THEN 0
    ELSE LET h == WrappingMul(a, b \div 2)
             d == WrappingAdd(h, h)
         IN IF b % 2 = 1 THEN WrappingAdd(d, a) ELSE d

\* the product of two i32 that are not negative is not an i32
MulOverflows(a, b) == a > 0 /\ b > I32_MAX \div a

\* paginate as the release profile builds it: the multiplication wraps
paginate(page, per_page, max_per_page, default_per_page) ==
    LET pg == IF page < 1 THEN 1 ELSE page
        pp == IF per_page < 1 THEN default_per_page
              ELSE IF per_page > max_per_page THEN max_per_page
              ELSE per_page
    IN <<pg, pp, WrappingMul(pg - 1, pp)>>

\* paginate in either profile: with overflow checks the multiplication
\* panics where the release profile wraps
PaginateOutcomes(page, per_page, max_per_page, default_per_page) ==
    LET out == paginate(page, per_page, max_per_page, default_per_page)
    IN IF MulOverflows(out[1] - 1, out[2])
       THEN {Ok(out), Err("Panic", "attempt to multiply with overflow")}
       ELSE {Ok(out)}

\* total_pages: the ceiling of total / per_page, cast to i32
total_pages(total, per_page) ==
    IF per_page > 0 THEN (total + per_page - 1) \div per_page
    ELSE IF per_page = 0 THEN (IF total = 0 THEN 0 ELSE 2147483647)
    ELSE 0 - (total \div (0 - per_page))

\* clean_query
clean_query(q) ==
    Join(SplitWhitespace(
             [i \in 1..Len(q) |->
                 IF q[i] = "'" THEN q[i]
                 ELSE IF IsAsciiPunctuation(q[i]) THEN " "
                 ELSE q[i]]),
         <<" ">>)

(***************************************************************************)
(* The MessagePack form of search results (rmp_serde with the serde        *)
(* attributes of models.rs): a map from field names to values.  A field    *)
(* with skip_serializing_if is left out when the condition holds; on       *)
(* reading, a field that is missing is an error unless it has a default or *)
(* is an Option.                                                           *)
(***************************************************************************)
EmptyRec == [x \in {} |-> 0]

Field(name, value, present) == IF present THEN name :> value ELSE EmptyRec

\* Serialize for Relation
EncRelation(r) ==
    [types |-> r.types, weight |-> r.weight, status |-> r.status]
    @@ Field("id", r.id, r.id # 0)

\* Serialize for Entry
RECURSIVE EncEntry(_)
EncEntry(e) ==
    [guid |-> e.guid, content |-> e.content, lang |-> e.lang, status |-> e.status]
    @@ Field("id", e.id, e.id # 0)
    @@ Field("tokens", e.tokens, e.tokens # <<>>)
    @@ Field("relations",
             [i \in 1..Len(e.relations) |-> EncEntry(e.relations[i])],
             e.relations # <<>>)
    @@ Field("total_relations", e.total_relations, e.total_relations # 0)
    @@ Field("relation",
             IF e.relation = None THEN None ELSE EncRelation(e.relation[1]),
             e.relation # None)

\* rmp_serde::to_vec_named(&results): the MessagePack document as one chunk
\* of the payload
to_vec_named(results) ==
    <<[entries |-> [i \in 1..Len(results.entries) |-> EncEntry(results.entries[i])],
       page |-> results.page, per_page |-> results.per_page,
       total |-> results.total, total_pages |-> results.total_pages]>>

\* Deserialize for Relation
DecRelation(d) ==
    IF "id" \notin DOMAIN d THEN Err("Decode", "missing field id")
    ELSE Ok([id |-> d.id, types |-> d.types, weight |-> d.weight,
             status |-> d.status])

\* Deserialize for Entry
RECURSIVE DecEntry(_)
DecEntry(d) ==
    LET rels == IF "relations" \in DOMAIN d
                THEN [i \in 1..Len(d.relations) |-> DecEntry(d.relations[i])]
                ELSE <<>>
        rel == IF "relation" \in DOMAIN d THEN DecRelation(d.relation)
               ELSE Ok(None)
    IN IF "id" \notin DOMAIN d THEN Err("Decode", "missing field id")
       ELSE IF "tokens" \notin DOMAIN d THEN Err("Decode", "missing field tokens")
       ELSE IF "total_relations" \notin DOMAIN d
       THEN Err("Decode", "missing field total_relations")
       ELSE IF \E i \in 1..Len(rels) : ~rels[i].ok
       THEN Err("Decode", "invalid relations")
       ELSE IF ~rel.ok THEN rel
       ELSE Ok([id |-> d.id, guid |-> d.guid, content |-> d.content,
                lang |-> d.lang, tokens |-> d.tokens, status |-> d.status,
                relations |-> [i \in 1..Len(rels) |-> rels[i].v],
                total_relations |-> d.total_relations,
                total |-> 0, from_id |-> 0, relation_id |-> 0,
                relation |-> IF "relation" \in DOMAIN d THEN Some(rel.v) ELSE None])

\* rmp_serde::from_slice::<SearchResults>
from_slice(payload) ==
    IF payload = <<>> THEN Err("Decode", "unexpected end of input")
    ELSE LET d == payload[1]
             es == [i \in 1..Len(d.entries) |-> DecEntry(d.entries[i])]
         IN IF \E i \in 1..Len(es) : ~es[i].ok
            THEN Err("Decode", "invalid entries")
            ELSE Ok([entries |-> [i \in 1..Len(es) |-> es[i].v],
                     page |-> d.page, per_page |-> d.per_page,
                     total |-> d.total, total_pages |-> d.total_pages])

(***************************************************************************)
(* src/handlers/search.rs: do_search as a task per request.  A task is     *)
(* suspended at its await points (cache.get, mgr.search,                   *)
(* mgr.load_relations); the code between two await points is one step.     *)
(***************************************************************************)
Procs == {1, 2}

\* the handlers search and search_admin of handlers/search.rs and the
\* search page of handlers/site.rs: the SearchQuery given to do_search
HandlerQuery(r) ==
    IF r.endpoint = "site"
    THEN LET pg == paginate(0, 0, site_max_per_page, site_default_per_page)
         IN [query |-> clean_query(r.query), from_lang |-> r.from_lang,
             to_lang |-> r.to_lang, types |-> <<>>, tags |-> <<>>,
             status |-> <<>>, page |-> pg[1], per_page |-> 0,
             offset |-> pg[3], limit |-> pg[2],
             max_relations |-> site_max_relations_per_type,
             max_content_items |-> site_max_content_items]
    ELSE LET pg == paginate(r.page, r.per_page, api_max_per_page,
                            api_default_per_page)
         IN [query |-> r.query, from_lang |-> r.from_lang, to_lang |-> r.to_lang,
             types |-> r.types, tags |-> r.tags, status |-> r.status,
             page |-> pg[1], per_page |-> r.per_page, offset |-> pg[3],
             limit |-> pg[2], max_relations |-> 0, max_content_items |-> 0]

ValidateAnyToLang(query) ==
    IF query.query = <<>> THEN Some(ApiErr("query is required", BAD_REQUEST))
    ELSE IF query.from_lang \notin DOMAIN Langs
    THEN Some(ApiErr("unknown from_lang", BAD_REQUEST))
    ELSE None

\* do_search, lines 67-83: the validation error, if any
Validate(query) ==
    IF query.query = <<>> THEN Some(ApiErr("query is required", BAD_REQUEST))
    ELSE IF query.from_lang \notin DOMAIN Langs
    THEN Some(ApiErr("unknown from_lang", BAD_REQUEST))
    ELSE IF /\ query.to_lang # <<"*">>
            /\ query.to_lang # <<>>
            /\ query.to_lang \notin DOMAIN Langs
    THEN Some(ApiErr("unknown to_lang", BAD_REQUEST))
    ELSE None

\* do_search, lines 76-83: the local to_lang
ToLang(query) == IF query.to_lang = <<"*">> THEN <<>> ELSE query.to_lang

UsesCacheAlsoForAdmin(is_admin) == cacheEnabled

\* do_search, line 86
UsesCache(is_admin) == ~is_admin /\ cacheEnabled

\* do_search, lines 110-125: the RelationsQuery
RelationsQueryOf(query) ==
    [to_lang |-> ToLang(query), types |-> query.types, tags |-> query.tags,
     status |-> IF query.status = <<>> THEN STATUS_ENABLED ELSE query.status,
     max_per_type |-> query.max_relations,
     max_content_items |-> query.max_content_items]

RedactRootsOnly(entries) ==
    [i \in 1..Len(entries) |-> [entries[i] EXCEPT !.id = 0]]

\* do_search, lines 131-139
Redact(entries) ==
    [i \in 1..Len(entries) |->
        [entries[i] EXCEPT
            !.id = 0,
            !.relations =
                [j \in 1..Len(@) |->
                    [@[j] EXCEPT
                        !.id = 0,
                        !.relation =
                            IF @ = None THEN None
                            ELSE Some([@[1] EXCEPT !.id = 0])]]]]

ComposeResultsUnredacted(query, is_admin, entries, total) ==
    [entries |-> entries,
     page |-> query.page, per_page |-> query.limit, total |-> total,
     total_pages |-> total_pages(total, query.limit)]

\* do_search, lines 130-148
ComposeResults(query, is_admin, entries, total) ==
    [entries |-> IF is_admin THEN entries ELSE Redact(entries),
     page |-> query.page, per_page |-> query.limit, total |-> total,
     total_pages |-> total_pages(total, query.limit)]

CacheProbeStrict(bk, key, t, readErr) ==
    LET cached == CacheGet(bk, key, t, readErr)
    IN IF cached = None THEN [hit |-> FALSE, failed |-> readErr]
       ELSE LET r == from_slice(cached[1])
            IN IF r.ok THEN [hit |-> TRUE, failed |-> FALSE, results |-> r.v]
               ELSE [hit |-> FALSE, failed |-> TRUE]

\* do_search, lines 88-100: the cache probe; failed is set when the probe
\* makes the request fail
CacheProbe(bk, key, t, readErr) ==
    LET cached == CacheGet(bk, key, t, readErr)
    IN IF cached = None THEN [hit |-> FALSE, failed |-> FALSE]
       ELSE LET r == from_slice(cached[1])
            IN IF r.ok THEN [hit |-> TRUE, failed |-> FALSE, results |-> r.v]
               ELSE [hit |-> FALSE, failed |-> FALSE]

\* what the probe met, for the record of the request
ProbeClass(bk, key, t, readErr) ==
    IF readErr THEN "read_error"
    ELSE IF key \notin DOMAIN bk THEN "absent"
    ELSE IF Len(bk[key]) < TTL_PREFIX_SIZE THEN "short"
    ELSE IF CacheGet(bk, key, t, FALSE) = None THEN "expired"
    ELSE IF from_slice(CacheGet(bk, key, t, FALSE)[1]).ok THEN "hit"
    ELSE "undecodable"

\* probe, trace and seen record what the task met and did: the state of
\* the cache entry, the calls made, and the store contents it has read
IdleTask ==
    [pc |-> "idle", raw |-> <<>>, query |-> <<>>, is_admin |-> FALSE,
     cache_key |-> None, probe |-> "none", trace |-> {}, entries |-> <<>>,
     total |-> 0, search_err |-> "none", fts |-> None, rq |-> <<>>,
     enc_failed |-> FALSE, resp |-> None, seen |-> {}]

\* the requests that arrive: path and query parameters and the endpoint
Requests ==
    LET r(endpoint, from_lang, to_lang, query) ==
            [endpoint |-> endpoint, from_lang |-> from_lang,
             to_lang |-> to_lang, query |-> query, types |-> <<>>,
             tags |-> <<>>, status |-> <<>>, page |-> 0, per_page |-> 0]
    IN {r("api", EN, FR, Str("a")),
        r("admin", EN, FR, Str("a")),
        r("admin", EN, Str("*"), Str("a")),
        r("admin", EN, <<>>, Str("a")),
        r("api", EN, FR, Str("-")),
        r("api", Str("x"), FR, Str("a")),
        r("api", EN, Str("x"), Str("a")),
        r("api", FR, EN, Str("B")),
        r("api", EN, FR, Str("b")),
        r("admin", EN, FR, Str("b"))}

\* what the disk tier of a hybrid cache can hold of a search key when the
\* cache is opened: nothing, or a value cut short
RecoveredBackends ==
    {EmptyMap,
     [k \in {make_search_cache_key(
                [HandlerQuery(CHOOSE r \in Requests :
                     r.endpoint = "api" /\ r.query = Str("a")
                     /\ r.from_lang = EN /\ r.to_lang = FR)
                 EXCEPT !.query = Str("a")])} |-> <<0, 0, 0>>]}

Init ==
    /\ now = ClockStart
    /\ cacheEnabled \in BOOLEAN
    /\ mode \in IF cacheEnabled THEN {"memory", "hybrid"} ELSE {"memory"}
    /\ backend \in IF mode = "hybrid" THEN RecoveredBackends ELSE {EmptyMap}
    /\ store = [entries |-> StoreEntries, relations |-> StoreRelations]
    /\ procs = {1}
    /\ task = [p \in Procs |-> IdleTask]
    /\ CacheIdle
    /\ KeyIdle
    /\ CallIdle
    /\ LockIdle

\* do_search up to its first await point
Begin(p, r) ==
    /\ p \in procs
    /\ task[p].pc = "idle"
    /\ LET is_admin == r.endpoint = "admin"
           query == [HandlerQuery(r) EXCEPT !.query = clean_query(@)]
           bad == Validate(query)
           t0 == [IdleTask EXCEPT !.raw = r, !.query = query,
                                  !.is_admin = is_admin]
       IN task' = [task EXCEPT ![p] =
              IF bad # None THEN [t0 EXCEPT !.pc = "done", !.resp = bad]
              ELSE IF UsesCache(is_admin)
              THEN [t0 EXCEPT !.pc = "cache_get",
                              !.cache_key = Some(make_search_cache_key(query))]
              ELSE [t0 EXCEPT !.pc = "search"]]
    /\ UNCHANGED <<callVars, luaLock, now, mode, backend, cacheVars, keyVars, cacheEnabled, store, procs>>

\* cache.get(&key).await and the handling of what it returns
DoCacheGet(p, readErr) ==
    /\ p \in procs
    /\ task[p].pc = "cache_get"
    /\ LET key == task[p].cache_key[1]
           probe == CacheProbe(backend, key, now, readErr)
           t1 == [task[p] EXCEPT
                     !.trace = @ \cup {"get"},
                     !.probe = ProbeClass(backend, key, now, readErr)]
       IN task' = [task EXCEPT ![p] =
              IF probe.failed
              THEN [t1 EXCEPT !.pc = "done",
                              !.resp = Some(ApiErr("cache error", INTERNAL_SERVER_ERROR))]
              ELSE IF probe.hit
              THEN [t1 EXCEPT !.pc = "done",
                              !.resp = Some(Ok(probe.results))]
              ELSE [t1 EXCEPT !.pc = "search"]]
    /\ UNCHANGED <<callVars, luaLock, now, mode, backend, cacheVars, keyVars, cacheEnabled, store, procs>>

\* ctx.mgr.search(&query, query.offset, query.limit).await?
DoManagerSearch(p, out) ==
    /\ p \in procs
    /\ task[p].pc = "search"
    /\ out \in ManagerSearch(store, task[p].query, task[p].query.offset,
                             task[p].query.limit)
    /\ LET t1 == [task[p] EXCEPT
                     !.fts = out.fts,
                     !.seen = @ \cup {store},
                     !.trace = @ \cup {"search"}
                               \cup (IF out.ok \/ out.kind = "Db"
                                     THEN {"query"} ELSE {})]
       IN task' = [task EXCEPT ![p] =
              IF out.ok
              THEN [t1 EXCEPT !.pc = "load", !.entries = out.v[1],
                              !.total = out.v[2]]
              ELSE [t1 EXCEPT !.pc = "done", !.search_err = out.kind,
                              !.resp = Some(ApiErrFrom(out))]]
    /\ UNCHANGED <<callVars, luaLock, now, mode, backend, cacheVars, keyVars, cacheEnabled, store, procs>>

\* ctx.mgr.load_relations(..).await? and the rest of do_search: redaction,
\* the results and the cache store; encOk is whether to_vec_named succeeds
DoLoadRelations(p, out, encOk) ==
    /\ p \in procs
    /\ task[p].pc = "load"
    /\ out \in LoadRelations(store, task[p].entries, RelationsQueryOf(task[p].query))
    /\ encOk \in (IF task[p].cache_key = None \/ ~out.ok THEN {TRUE} ELSE BOOLEAN)
    /\ LET t1 == [task[p] EXCEPT !.trace = @ \cup {"load"},
                                 !.seen = @ \cup {store},
                                 !.rq = RelationsQueryOf(task[p].query)]
           results == ComposeResults(task[p].query, task[p].is_admin, out.v,
                                     task[p].total)
           puts == out.ok /\ task[p].cache_key # None /\ cacheEnabled /\ encOk
       IN /\ task' = [task EXCEPT ![p] =
                 IF ~out.ok
                 THEN [t1 EXCEPT !.pc = "done", !.resp = Some(ApiErrFrom(out))]
                 ELSE [t1 EXCEPT !.pc = "done", !.entries = results.entries,
                                 !.enc_failed = ~encOk,
                                 !.trace = @ \cup (IF puts THEN {"put"} ELSE {}),
                                 !.resp = Some(Ok(results))]]
          /\ backend' = IF puts
                        THEN CachePut(backend, task[p].cache_key[1], now,
                                      to_vec_named(results))
                        ELSE backend
    /\ UNCHANGED <<callVars, luaLock, now, mode, cacheVars, keyVars, cacheEnabled, store, procs>>

\* the caller goes away while the task is suspended: the future is dropped
Cancel(p) ==
    /\ p \in procs
    /\ task[p].pc \in {"cache_get", "search", "load"}
    /\ task' = [task EXCEPT ![p] = IdleTask]
    /\ UNCHANGED <<callVars, luaLock, now, mode, backend, cacheVars, keyVars, cacheEnabled, store, procs>>

\* the response is sent; the task is free for the next request
Finish(p) ==
    /\ p \in procs
    /\ task[p].pc = "done"
    /\ task' = [task EXCEPT ![p] = IdleTask]
    /\ UNCHANGED <<callVars, luaLock, now, mode, backend, cacheVars, keyVars, cacheEnabled, store, procs>>

\* the backend evicts an entry for capacity
Evict(k) ==
    /\ k \in DOMAIN backend
    /\ backend' = BackendEvict(backend, k)
    /\ UNCHANGED <<callVars, luaLock, now, mode, cacheVars, keyVars, searchVars>>

Next ==
    \/ Tick
    \/ \E p \in Procs, r \in Requests : Begin(p, r)
    \/ \E p \in Procs, e \in ReadOutcomes : DoCacheGet(p, e)
    \/ \E p \in Procs :
           /\ task[p].pc = "search"
           /\ \E out \in ManagerSearch(store, task[p].query,
                                       task[p].query.offset,
                                       task[p].query.limit) :
                  DoManagerSearch(p, out)
    \/ \E p \in Procs, b \in BOOLEAN :
           /\ task[p].pc = "load"
           /\ \E out \in LoadRelations(store, task[p].entries,
                                       RelationsQueryOf(task[p].query)) :
                  DoLoadRelations(p, out, b)
    \/ \E p \in Procs : Cancel(p)
    \/ \E p \in Procs : Finish(p)
    \/ \E k \in DOMAIN backend : Evict(k)

Spec == Init /\ [][Next]_vars

(***************************************************************************)
(* Properties of do_search                                                 *)
(***************************************************************************)
Done(p) == p \in procs /\ task[p].pc = "done"

\* the responses do_search gives to the request of a task when the cache
\* is disabled
NoCacheResponses(t) ==
    UNION {
        IF ~s.ok THEN {ApiErrFrom(s)}
        ELSE {IF ~l.ok THEN ApiErrFrom(l)
              ELSE Ok(ComposeResults(t.query, t.is_admin, l.v, s.v[2]))
              : l \in LoadRelations(store, s.v[1], RelationsQueryOf(t.query))}
        : s \in ManagerSearch(store, t.query, t.query.offset, t.query.limit)}

\* the cache failed the request of the task in one of the four ways
CacheFailed(t) ==
    \/ t.probe \in {"read_error", "short", "undecodable"}
    \/ t.enc_failed

\* C4: a backend read error, a stored value shorter than the prefix, a
\* payload that does not deserialize, or a serialization failure when
\* storing never makes a public search fail: the response is one that
\* do_search gives with the cache disabled.
C4_FailOpen ==
    \A p \in Procs :
        (Done(p) /\ ~task[p].is_admin /\ CacheFailed(task[p]))
        => task[p].resp[1] \in NoCacheResponses(task[p])

\* a public search answered with results although the payload under its
\* key did not deserialize
C4_Witness ==
    \E p \in Procs :
        /\ Done(p)
        /\ task[p].probe = "undecodable"
        /\ task[p].resp[1].ok
        /\ task[p].resp[1].v.entries # <<>>

\* a step of the task of an admin request
AdminStep(p) ==
    /\ task'[p].pc # task[p].pc
    /\ IF task[p].pc = "idle" THEN task'[p].is_admin ELSE task[p].is_admin

\* C6: a do_search with is_admin = true never calls Cache::get or
\* Cache::put: each of its steps leaves the cache contents as they were,
\* and its response is computed from the store.
C6_AdminBypass ==
    [][\A p \in Procs :
          AdminStep(p) =>
              /\ backend' = backend
              /\ task'[p].trace \cap {"get", "put"} = {}
              /\ task'[p].cache_key = None
              /\ (task'[p].pc = "done" /\ task'[p].resp[1].ok)
                 => task'[p].resp[1] \in NoCacheResponses(task'[p])]_vars

\* an admin search answered from the store while the cache holds an entry
\* under the key of its query
C6_Witness ==
    \E p \in Procs :
        /\ Done(p)
        /\ task[p].is_admin
        /\ task[p].resp[1].ok
        /\ task[p].resp[1].v.entries # <<>>
        /\ "search" \in task[p].trace
        /\ make_search_cache_key(task[p].query) \in DOMAIN backend

\* C7: when a public search finds an unexpired entry under its key (the
\* cache returns its payload), do_search returns the cached result at once:
\* no Manager::search, no load_relations and no Cache::put.
C7_HitShortCircuits ==
    \A p \in Procs :
        (p \in procs /\ task[p].probe \in {"hit", "undecodable"})
        => /\ task[p].pc = "done"
           /\ task[p].resp[1].ok
           /\ task[p].trace = {"get"}

\* every id of the results is zero
AllIdsZero(results) ==
    \A i \in 1..Len(results.entries) :
        /\ results.entries[i].id = 0
        /\ \A j \in 1..Len(results.entries[i].relations) :
               /\ results.entries[i].relations[j].id = 0
               /\ results.entries[i].relations[j].relation # None
               /\ results.entries[i].relations[j].relation[1].id = 0

\* every id of the results is the non-zero id of the store
AllIdsOfStore(results) ==
    \A i \in 1..Len(results.entries) :
        LET e == results.entries[i] IN
        /\ e.id # 0
        /\ \E s \in store.entries : s.id = e.id /\ s.guid = e.guid
        /\ \A j \in 1..Len(e.relations) :
               /\ e.relations[j].id # 0
               /\ \E s \in store.entries :
                      s.id = e.relations[j].id /\ s.guid = e.relations[j].guid
               /\ e.relations[j].relation # None
               /\ e.relations[j].relation[1].id # 0
               /\ \E r \in store.relations :
                      /\ r.id = e.relations[j].relation[1].id
                      /\ r.from_id = e.id
                      /\ r.to_id = e.relations[j].id

\* C8: every response of a public search, computed on a miss or served
\* from the cache, has id = 0 for every root entry, related entry and
\* relation; an admin response carries the non-zero ids of the store.
C8_Redaction ==
    \A p \in Procs :
        (Done(p) /\ task[p].resp[1].ok)
        => IF task[p].is_admin
           THEN AllIdsOfStore(task[p].resp[1].v)
           ELSE AllIdsZero(task[p].resp[1].v)

\* a public response with a root entry that has relations
C8_Witness ==
    \E p \in Procs :
        /\ Done(p)
        /\ ~task[p].is_admin
        /\ "put" \in task[p].trace
        /\ task[p].resp[1].ok
        /\ \E i \in 1..Len(task[p].resp[1].v.entries) :
               Len(task[p].resp[1].v.entries[i].relations) >= 1

\* the request is one that validation rejects
Invalid(r) ==
    \/ clean_query(r.query) = <<>>
    \/ r.from_lang \notin DOMAIN Langs
    \/ r.to_lang \notin {<<"*">>, <<>>} /\ r.to_lang \notin DOMAIN Langs

\* C9: do_search rejects with a validation error, before any cache read,
\* store query or cache write, when the query is empty after clean_query,
\* from_lang is not configured, or to_lang is neither "*", empty nor
\* configured; "*" and the empty to_lang are accepted and load relations
\* with no target-language filter.
C9_Validation ==
    \A p \in Procs :
        (p \in procs /\ task[p].pc # "idle")
        => /\ Invalid(task[p].raw)
              => /\ task[p].pc = "done"
                 /\ ~task[p].resp[1].ok
                 /\ task[p].resp[1].status = BAD_REQUEST
                 /\ task[p].trace = {}
           /\ (~Invalid(task[p].raw) /\ task[p].pc = "done" /\ ~task[p].resp[1].ok)
              => task[p].resp[1].status # BAD_REQUEST
           /\ (task[p].raw.to_lang \in {<<"*">>, <<>>} /\ "load" \in task[p].trace)
              => task[p].rq.to_lang = <<>>

\* a request with an unknown to_lang was rejected
C9_Witness ==
    \E p \in Procs :
        /\ Done(p)
        /\ task[p].raw.to_lang = Str("x")
        /\ task[p].resp[1] = ApiErr("unknown to_lang", BAD_REQUEST)

\* C10: when to_query of the from_lang tokenizer yields an empty or blank
\* string, Manager::search returns a Validation error, which differs from
\* a storage error; the store is not queried and nothing is put in the
\* cache.
C10_EmptyTranslatedQuery ==
    \A p \in Procs :
        (p \in procs /\ task[p].fts # None /\ Trim(task[p].fts[1]) = <<>>)
        => /\ task[p].search_err = "Validation"
           /\ task[p].pc = "done"
           /\ task[p].resp[1] = ApiErr("invalid search query", INTERNAL_SERVER_ERROR)
           /\ task[p].resp[1] # ApiErrFrom(Err("Db", "database error"))
           /\ task[p].trace \cap {"query", "load", "put"} = {}

\* a public search through the cache whose translated query was blank
C10_Witness ==
    \E p \in Procs :
        /\ Done(p)
        /\ task[p].fts = Some(<<" ">>)
        /\ task[p].cache_key # None
        /\ task[p].search_err = "Validation"


(***************************************************************************)
(* load_relations on its own: the roots of a search result and a store     *)
(* whose relations vary, loaded under a per-type limit.                    *)
(***************************************************************************)
MaxPerType == 2

RelEntries ==
    {[id |-> 1, guid |-> "g1", lang |-> EN, content |-> <<Str("a")>>,
      tokens |-> Str("a"), status |-> STATUS_ENABLED],
     [id |-> 2, guid |-> "g2", lang |-> FR, content |-> <<Str("b")>>,
      tokens |-> Str("b"), status |-> STATUS_ENABLED],
     [id |-> 3, guid |-> "g3", lang |-> FR, content |-> <<Str("x")>>,
      tokens |-> Str("x"), status |-> STATUS_ENABLED],
     [id |-> 4, guid |-> "g4", lang |-> EN, content |-> <<Str("a"), Str("y")>>,
      tokens |-> <<"a", " ", "y">>, status |-> STATUS_ENABLED],
     [id |-> 5, guid |-> "g5", lang |-> FR, content |-> <<Str("y")>>,
      tokens |-> Str("y"), status |-> STATUS_ENABLED]}

\* the relations a store may hold: ids do not follow weights, two weights tie
RelPool ==
    {[id |-> 1, from_id |-> 1, to_id |-> 2, types |-> <<Str("b")>>,
      tags |-> <<>>, weight |-> 2, status |-> STATUS_ENABLED],
     [id |-> 2, from_id |-> 1, to_id |-> 3, types |-> <<Str("b")>>,
      tags |-> <<>>, weight |-> 0, status |-> STATUS_ENABLED],
     [id |-> 3, from_id |-> 1, to_id |-> 5, types |-> <<Str("b")>>,
      tags |-> <<>>, weight |-> 2, status |-> STATUS_ENABLED],
     [id |-> 4, from_id |-> 1, to_id |-> 2, types |-> <<Str("x")>>,
      tags |-> <<>>, weight |-> 1, status |-> STATUS_ENABLED],
     [id |-> 5, from_id |-> 4, to_id |-> 2, types |-> <<Str("b")>>,
      tags |-> <<>>, weight |-> 0, status |-> STATUS_ENABLED]}

\* the roots as Manager::search returns them
RelRoots == <<EntryRow(CHOOSE e \in RelEntries : e.id = 1, 2),
              EntryRow(CHOOSE e \in RelEntries : e.id = 4, 2)>>

RelQuery(m) ==
    [to_lang |-> <<>>, types |-> <<>>, tags |-> <<>>, status |-> STATUS_ENABLED,
     max_per_type |-> m, max_content_items |-> 0]

RInit ==
    /\ now = ClockStart
    /\ mode = "memory"
    /\ backend = EmptyMap
    /\ CacheIdle
    /\ KeyIdle
    /\ SearchIdle
    /\ LockIdle
    /\ fx \in [relations : SUBSET RelPool, max_per_type : 0..MaxPerType]
    /\ fy = <<>>

LoadRel ==
    /\ fy = <<>>
    /\ \E out \in LoadRelations([entries |-> RelEntries, relations |-> fx.relations],
                                RelRoots, RelQuery(fx.max_per_type)) :
          fy' = <<out>>
    /\ UNCHANGED <<now, mode, backend, cacheVars, keyVars, searchVars, fx, luaLock>>

RNext == LoadRel

SpecRel == RInit /\ [][RNext]_vars

\* the store's relations of a root, and those of one type
RelOf(root) == {r \in fx.relations : r.from_id = root.id}
RelOfType(root, t) == {r \in RelOf(root) : r.types = t}

\* the positions of the attached relations of a root that have type t
AttachedOfType(root, t) ==
    {i \in 1..Len(root.relations) : root.relations[i].relation[1].types = t}

RelTypes == {r.types : r \in RelPool}

\* C11: after load_relations with max_per_type > 0 every root has, of each
\* type, as many relations attached as the store holds up to max_per_type,
\* none of a higher weight than one of that type left out, in ascending
\* order of weight, and total_relations is the number of all its relations;
\* with max_per_type = 0 all of them are attached.
C11_FanOut ==
    (fy # <<>> /\ fy[1].ok) =>
        \A n \in 1..Len(fy[1].v) :
            LET root == fy[1].v[n]
                m == fx.max_per_type
            IN /\ root.total_relations = Cardinality(RelOf(root))
               /\ m = 0 =>
                    {root.relations[i].relation_id : i \in 1..Len(root.relations)}
                        = {r.id : r \in RelOf(root)}
               /\ \A t \in RelTypes :
                    LET at == AttachedOfType(root, t)
                    IN /\ m > 0 => Cardinality(at) =
                                       Min(m, Cardinality(RelOfType(root, t)))
                       /\ m = 0 => Cardinality(at) = Cardinality(RelOfType(root, t))
                       /\ \A i \in at :
                            /\ \E r \in RelOfType(root, t) :
                                  /\ r.id = root.relations[i].relation_id
                                  /\ r.weight = root.relations[i].relation[1].weight
                            /\ \A r \in RelOfType(root, t) :
                                  r.id \notin {root.relations[j].relation_id : j \in at}
                                      => r.weight >= root.relations[i].relation[1].weight
                            /\ \A j \in at :
                                  i < j => root.relations[i].relation[1].weight
                                               <= root.relations[j].relation[1].weight

\* a root with three relations of one type is loaded with a limit below that
C11_Witness ==
    /\ fy # <<>> /\ fy[1].ok
    /\ fx.max_per_type > 0
    /\ \E n \in 1..Len(fy[1].v) :
          /\ Cardinality(RelOfType(fy[1].v[n], <<Str("b")>>)) = 3
          /\ Cardinality(AttachedOfType(fy[1].v[n], <<Str("b")>>)) = fx.max_per_type
          /\ fy[1].v[n].total_relations > Len(fy[1].v[n].relations)


(***************************************************************************)
(* src/autocomplete.rs.  A trie is the sequence of its words in the order  *)
(* predictive_search walks them: byte-wise lexicographic, each word once.  *)
(***************************************************************************)
MaxWords == 3
MaxNum == 2

\* char::is_numeric on the characters in use
IsNumeric(c) == c \in {"0", "1", "2", "3", "4", "5", "6", "7", "8", "9"}

\* normalize_word
normalize_word(s) ==
    SelectSeq([i \in 1..Len(s) |->
                  IF LowerChar(s[i]) = "-" THEN " " ELSE LowerChar(s[i])],
              LAMBDA c : ~IsNumeric(c))

\* the loop of build without its test
RECURSIVE PushAllWords(_, _, _)
PushAllWords(words, i, b) ==
    IF i > Len(words) THEN b
    ELSE PushAllWords(words, i + 1, b \cup {normalize_word(words[i])})

\* the loop of build: the words pushed to the TrieBuilder
RECURSIVE PushWords(_, _, _)
PushWords(words, i, b) ==
    IF i > Len(words) THEN b
    ELSE LET wn == normalize_word(words[i])
         IN PushWords(words, i + 1, IF wn # <<>> THEN b \cup {wn} ELSE b)

\* TrieBuilder::build
RECURSIVE TrieOf(_)
TrieOf(b) ==
    IF b = {} THEN <<>>
    ELSE LET m == CHOOSE x \in b : \A y \in b \ {x} : StrLess(x, y)
         IN <<m>> \o TrieOf(b \ {m})

AutocompleteBuildKeepsEmpty(tries, lang, words) ==
    [l \in DOMAIN tries \cup {lang} |->
        IF l = lang THEN TrieOf(PushAllWords(words, 1, {})) ELSE tries[l]]

\* Autocomplete::build
AutocompleteBuild(tries, lang, words) ==
    [l \in DOMAIN tries \cup {lang} |->
        IF l = lang THEN TrieOf(PushWords(words, 1, {})) ELSE tries[l]]

StartsWith(w, p) == Len(p) <= Len(w) /\ SubSeq(w, 1, Len(p)) = p

\* Trie::predictive_search
PredictiveSearch(trie, word) == SelectSeq(trie, LAMBDA w : StartsWith(w, word))

\* Iterator::take
Take(s, n) == SubSeq(s, 1, Min(n, Len(s)))

\* Autocomplete::query
AutocompleteQuery(tries, lang, prefix, num) ==
    LET word == normalize_word(prefix)
    IN IF word = <<>> THEN <<>>
       ELSE IF lang \notin DOMAIN tries THEN <<>>
       ELSE Take(PredictiveSearch(tries[lang], word), num)

(***************************************************************************)
(* The autocomplete index on its own: built for one language from a list   *)
(* of words, then queried.                                                 *)
(***************************************************************************)
WordPool ==
    {<<"b">>, <<"a", "b">>, <<"A">>, <<"a", "-", "1">>, <<"1">>, <<"a">>}
PrefixPool == {<<>>, <<"a">>, <<"A">>, <<"1">>, <<"-">>, <<"a", "b">>}

AInit ==
    /\ now = ClockStart
    /\ mode = "memory"
    /\ backend = EmptyMap
    /\ CacheIdle
    /\ KeyIdle
    /\ SearchIdle
    /\ LockIdle
    /\ fx \in [words : SeqsUpTo(WordPool, MaxWords), lang : {EN, FR},
               prefix : PrefixPool, num : 0..MaxNum]
    /\ fy = <<>>

\* startup: the index of EN is built; FR has none
ABuild ==
    /\ fy = <<>>
    /\ fy' = [tries |-> AutocompleteBuild(EmptyMap, EN, fx.words), out |-> None]
    /\ UNCHANGED <<now, mode, backend, cacheVars, keyVars, searchVars, fx, luaLock>>

AQuery ==
    /\ fy # <<>>
    /\ fy.out = None
    /\ fy' = [fy EXCEPT !.out =
                 Some(AutocompleteQuery(fy.tries, fx.lang, fx.prefix, fx.num))]
    /\ UNCHANGED <<now, mode, backend, cacheVars, keyVars, searchVars, fx, luaLock>>

ANext == ABuild \/ AQuery

SpecAuto == AInit /\ [][ANext]_vars


\* C14: every index holds no empty word; a query returns at most num words,
\* each a word of the language's index that starts with the normalized
\* prefix, in strictly ascending byte order; it returns the empty list when
\* the prefix normalizes to the empty string or the language has no trie.
C14_AutocompleteQuery ==
    fy # <<>> =>
        /\ \A l \in DOMAIN fy.tries : \A i \in 1..Len(fy.tries[l]) :
              fy.tries[l][i] # <<>>
        /\ fy.out # None =>
              LET o == fy.out[1]
                  word == normalize_word(fx.prefix)
              IN /\ Len(o) <= fx.num
                 /\ \A i \in 1..Len(o) :
                       /\ fx.lang \in DOMAIN fy.tries
                       /\ o[i] \in Range(fy.tries[fx.lang])
                       /\ StartsWith(o[i], word)
                 /\ \A i, j \in 1..Len(o) : i < j => StrLess(o[i], o[j])
                 /\ (word = <<>> \/ fx.lang \notin DOMAIN fy.tries) => o = <<>>

\* a query whose prefix is normalized finds more words than it may return,
\* in an index built from a list with a word that normalizes to nothing
C14_Witness ==
    /\ fy # <<>>
    /\ fy.out # None
    /\ fx.prefix = <<"A">>
    /\ fx.num = 1
    /\ Len(fy.out[1]) = 1
    /\ Len(PredictiveSearch(fy.tries[EN], <<"a">>)) > 1
    /\ \E i \in 1..Len(fx.words) : normalize_word(fx.words[i]) = <<>>


(***************************************************************************)
(* src/handlers/search.rs: get_suggestions                                 *)
(***************************************************************************)
MaxSuggest == 2

\* Suggestion { content: StringArray(vec![w]) }
Suggestion(w) == [content |-> <<w>>]

\* the store's full-text fallback for suggestions: the content of the
\* enabled entries of the language that have, for every term of the query,
\* a token starting with it, in id order, at most limit of them (all of
\* them for a negative limit)
ManagerGetSuggestions(entries, lang, q, limit) ==
    LET terms == SplitWhitespace(ToLowercase(q))
        hit(e) == \A i \in 1..Len(terms) :
                     \E t \in Range(SplitWhitespace(e.tokens)) : StartsWith(t, terms[i])
        matches == {e \in entries : e.lang = lang /\ e.status = STATUS_ENABLED /\ hit(e)}
        all == SortedBy(matches, [e \in matches |-> e.id])
        rows == IF limit < 0 THEN all ELSE Take(all, limit)
    IN {Err("Db", "database error"),
        Ok([i \in 1..Len(rows) |-> [content |-> rows[i].content]])}

NeedsFallbackInclusive(n, limit) == n <= limit

\* get_suggestions, line 202
NeedsFallback(n, limit) == n < limit

\* get_suggestions, lines 205-212: the loop over the fallback's items from
\* item i on
RECURSIVE MergeFrom(_, _, _, _)
MergeFrom(out, res, i, limit) ==
    IF i > Len(res) THEN out
    ELSE IF \E k \in 1..Len(out) : out[k].content = res[i].content
    THEN MergeFrom(out, res, i + 1, limit)
    ELSE IF Len(out) + 1 >= limit THEN Append(out, res[i])
    ELSE MergeFrom(Append(out, res[i]), res, i + 1, limit)

\* get_suggestions: the possible responses, each with the number of items
\* the trie gave and whether the store was queried
get_suggestions(ctx, lang, rawq) ==
    LET q == clean_query(rawq)
        limit == ctx.num_suggestions
        words == IF ctx.suggestions = None THEN <<>>
                 ELSE AutocompleteQuery(ctx.suggestions[1], lang, q, limit)
        out == [i \in 1..Len(words) |-> Suggestion(words[i])]
        answer(resp, queried) ==
            [resp |-> resp, trie_n |-> Len(out), queried |-> queried]
    IN IF q = <<>>
       THEN {answer(ApiErr("q is required", BAD_REQUEST), FALSE)}
       ELSE IF lang \notin DOMAIN Langs
       THEN {answer(ApiErr("unknown language", BAD_REQUEST), FALSE)}
       ELSE IF ~ctx.suggestions_enabled
       THEN {[resp |-> Ok(<<>>), trie_n |-> 0, queried |-> FALSE]}
       ELSE IF NeedsFallback(Len(out), limit)
       THEN {answer(Ok(IF res.ok THEN MergeFrom(out, res.v, 1, limit) ELSE out), TRUE) :
                res \in ManagerGetSuggestions(ctx.entries, lang, q, limit - Len(out))}
       ELSE {answer(Ok(out), FALSE)}

(***************************************************************************)
(* The suggestions endpoint on its own: a store, an index built at startup *)
(* from the entries the store held then, and one request.                  *)
(***************************************************************************)
SuggestPool ==
    {[id |-> 1, lang |-> EN, content |-> <<Str("A")>>, tokens |-> Str("a"),
      status |-> STATUS_ENABLED],
     [id |-> 2, lang |-> EN, content |-> <<Str("a")>>, tokens |-> Str("a"),
      status |-> STATUS_ENABLED],
     [id |-> 3, lang |-> EN, content |-> <<<<"a", "b">>>>, tokens |-> <<"a", "b">>,
      status |-> STATUS_ENABLED],
     [id |-> 4, lang |-> EN, content |-> <<<<"a", "y">>>>, tokens |-> <<"a", "y">>,
      status |-> STATUS_ENABLED]}

\* the first word of each entry, in id order: what the index is built from
WordsOf(entries) ==
    LET all == SortedBy(entries, [e \in entries |-> e.id])
    IN [i \in 1..Len(all) |-> all[i].content[1]]

GInit ==
    /\ now = ClockStart
    /\ mode = "memory"
    /\ backend = EmptyMap
    /\ CacheIdle
    /\ KeyIdle
    /\ SearchIdle
    /\ LockIdle
    /\ fx \in {x \in [entries : SUBSET SuggestPool, indexed : SUBSET SuggestPool,
                      lang : {EN, Str("x")}, q : {Str("a"), Str("-"), <<"a", "b">>},
                      num_suggestions : 0..MaxSuggest,
                      suggestions_enabled : BOOLEAN, has_index : BOOLEAN] :
                  x.indexed \subseteq x.entries}
    /\ fy = <<>>

GetSuggestions ==
    /\ fy = <<>>
    /\ LET ctx == [entries |-> fx.entries,
                   num_suggestions |-> fx.num_suggestions,
                   suggestions_enabled |-> fx.suggestions_enabled,
                   suggestions |->
                       IF fx.has_index
                       THEN Some(AutocompleteBuild(EmptyMap, EN, WordsOf(fx.indexed)))
                       ELSE None]
       IN \E out \in get_suggestions(ctx, fx.lang, fx.q) : fy' = <<out>>
    /\ UNCHANGED <<now, mode, backend, cacheVars, keyVars, searchVars, fx, luaLock>>

GNext == GetSuggestions

SpecSuggest == GInit /\ [][GNext]_vars

\* the words the index gives for the request
TrieWords ==
    IF fx.has_index
    THEN AutocompleteQuery(AutocompleteBuild(EmptyMap, EN, WordsOf(fx.indexed)),
                           fx.lang, clean_query(fx.q), fx.num_suggestions)
    ELSE <<>>

\* C12: a response holds at most num_suggestions items, it starts with the
\* index's words in the index's order, and the store is queried only when
\* the index gave fewer than num_suggestions.
C12_SuggestionsBound ==
    (fy # <<>> /\ fy[1].resp.ok) =>
        LET out == fy[1].resp.v
        IN /\ Len(out) <= fx.num_suggestions
           /\ fx.suggestions_enabled =>
                 /\ fy[1].trie_n = Len(TrieWords)
                 /\ Len(out) >= fy[1].trie_n
                 /\ \A i \in 1..fy[1].trie_n : out[i] = Suggestion(TrieWords[i])
           /\ fy[1].queried => fy[1].trie_n < fx.num_suggestions
           /\ ~fy[1].queried => Len(out) = fy[1].trie_n

\* the index gives one word, the store has more than one other, and the
\* list is filled up to the limit
C12_Witness ==
    /\ fy # <<>> /\ fy[1].resp.ok
    /\ fx.num_suggestions = 2
    /\ fy[1].trie_n = 1
    /\ fy[1].queried
    /\ Len(fy[1].resp.v) = 2
    /\ Cardinality(fx.entries) >= 3

NormalizedContent(sg) == [i \in 1..Len(sg.content) |-> normalize_word(sg.content[i])]

\* C13: no response holds two suggestions whose normalized content is equal.
C13_SuggestionsDedup ==
    (fy # <<>> /\ fy[1].resp.ok) =>
        \A i, j \in 1..Len(fy[1].resp.v) :
            i # j => NormalizedContent(fy[1].resp.v[i])
                        # NormalizedContent(fy[1].resp.v[j])


(***************************************************************************)
(* The built-in tokenizers on their own: one text given to tokenize and to *)
(* to_query of the same tokenizer.                                         *)
(***************************************************************************)
MaxTextLen == 4

TextChars == {"A", "b", "s", " "}

TInit ==
    /\ now = ClockStart
    /\ mode = "memory"
    /\ backend = EmptyMap
    /\ CacheIdle
    /\ KeyIdle
    /\ SearchIdle
    /\ LockIdle
    /\ fx \in [tk : {"simple", "default:english"}, text : SeqsUpTo(TextChars, MaxTextLen)]
    /\ fy = <<>>

TokenizeAndQuery ==
    /\ fy = <<>>
    /\ \E t \in TokenizeOutcomes(fx.tk, fx.text), q \in ToQueryOutcomes(fx.tk, fx.text) :
          fy' = [tokens |-> t, query |-> q]
    /\ UNCHANGED <<now, mode, backend, cacheVars, keyVars, searchVars, fx, luaLock>>

TNext == TokenizeAndQuery

SpecTok == TInit /\ [][TNext]_vars

\* C15: for the simple and the stemming tokenizer to_query gives the tokens
\* of tokenize joined by single spaces, and a text without whitespace that
\* is indexed by tokenize is matched by its own query.
C15_TokenizerAgreement ==
    fy # <<>> =>
        /\ fy.tokens.ok /\ fy.query.ok
        /\ fy.query.v = Join(fy.tokens.v, <<" ">>)
        /\ (Len(SplitWhitespace(fx.text)) = 1) =>
              FtsMatch(Join(fy.tokens.v, <<" ">>), fy.query.v)

\* a capitalised plural is tokenized by the stemming tokenizer, and a text
\* of two words with surrounding blanks by the simple one
C15_Witness ==
    /\ fy # <<>>
    /\ \/ fx.tk = "default:english" /\ fx.text = <<"A", "b", "s">>
          /\ fy.query.v = <<"a", "b">>
       \/ fx.tk = "simple" /\ fx.text = <<" ", "A", " ", "b">>
          /\ fy.query.v = <<"a", " ", "b">>


(***************************************************************************)
(* src/manager/mod.rs and src/importer.rs: entry writes, and the tokenizer *)
(* calls of writes and searches, as threads.  A call into a LuaTokenizer   *)
(* holds its Mutex<Lua> from lock() until the call returns; a thread is at *)
(* "lock" before it has the mutex and at "in_lua" while it holds it.  A    *)
(* stored entry also records how it was last written: explicit (the caller *)
(* gave tokens), via (the operation) and tk_failed (the tokenizer asked    *)
(* for returned an error during that write).                               *)
(***************************************************************************)
MaxStored == 1

STATUS_PENDING == <<"p", "e", "n", "d", "i", "n", "g">>

WIdleTask ==
    [pc |-> "idle", req |-> <<>>, tk |-> "", tokens |-> <<>>,
     tk_failed |-> FALSE, result |-> <<>>]

\* the calls threads make: Manager::insert_entry, update_entry,
\* insert_submission_entry, and the query translation of Manager::search
WRequests ==
    LET w(op, id, lang, content, tokens) ==
            [op |-> op, id |-> id, lang |-> lang, content |-> content,
             tokens |-> tokens]
    IN {w("insert", 0, EN, <<Str("A")>>, <<>>),
        w("insert", 0, FR, <<Str("A")>>, <<>>),
        w("insert", 0, ES, <<Str("A")>>, <<>>),
        w("insert", 0, EN, <<Str("A")>>, Str("x")),
        w("update", 1, FR, <<Str("B"), Str("a")>>, <<>>),
        w("update", 1, EN, <<>>, <<>>),
        w("update", 1, EN, <<Str("B")>>, Str("x")),
        w("submit", 0, FR, <<Str("A")>>, <<>>),
        w("search", 0, EN, <<Str("A")>>, <<>>),
        w("search", 0, FR, <<Str("A")>>, <<>>),
        w("search", 0, ES, <<Str("A")>>, <<>>),
        w("search", 0, YI, <<Str("A")>>, <<>>)}

\* the rows of a CSV file: language, content, tokenizer and tokens columns
ImportRows ==
    LET c(lang, content, tokenizer, tokens) ==
            [lang |-> lang, content |-> content, tokenizer |-> tokenizer,
             tokens |-> tokens]
    IN {c(EN, Str("A"), "lua:f", <<>>),
        c(EN, Str("A"), "default:english", <<>>),
        c(EN, Str("A"), "", Str("x")),
        c(EN, Str("A"), "lua:s", Str("x")),
        c(Str("x"), Str("A"), "", <<>>),
        c(EN, <<>>, "", <<>>)}

\* the text a request has tokenized or translated
TextOf(r) == IF r.op = "search" THEN r.content[1] ELSE Join(r.content, <<" ">>)

UpdateNeverRegenerates(e) == FALSE

\* Manager::update_entry, line 254
UpdateRegenerates(e) == e.content # <<>> /\ e.tokens = <<>>

\* a task that found its tokens without a tokenizer call
WithTokens(r, tokens) ==
    [WIdleTask EXCEPT !.pc = "sql", !.req = r, !.tokens = tokens]

WFailed(r, e) == [WIdleTask EXCEPT !.pc = "done", !.req = r, !.result = e]

\* Manager::tokenize up to the tokenizer's call
ManagerTokenize(r) ==
    LET text == Join(r.content, <<" ">>)
        tk == get_tokenizer(r.lang)
    IN IF tk = None THEN WithTokens(r, ToLowercase(text))
       ELSE IF tk[1] \in LuaInstances
       THEN [WIdleTask EXCEPT !.pc = "lock", !.req = r, !.tk = tk[1]]
       ELSE LET out == CHOOSE o \in TokenizeOutcomes(tk[1], text) : TRUE
            IN [WithTokens(r, Join(out.v, <<" ">>)) EXCEPT !.tk = tk[1]]

\* Manager::insert_entry and insert_submission_entry up to the tokenizer's
\* call or the statement
InsertStart(r) ==
    IF r.lang \notin DOMAIN Langs THEN WFailed(r, Err("UnknownLang", "unknown language"))
    ELSE IF r.tokens = <<>> THEN ManagerTokenize(r)
    ELSE WithTokens(r, r.tokens)

\* Manager::update_entry up to the tokenizer's call or the statement
UpdateStart(r) ==
    IF UpdateRegenerates(r) THEN ManagerTokenize(r) ELSE WithTokens(r, r.tokens)

\* Manager::to_fts_query up to the tokenizer's call
SearchStart(r) ==
    LET tk == get_tokenizer(r.lang)
    IN IF tk = None THEN WFailed(r, Err("UnknownLang", "unknown language"))
       ELSE IF tk[1] \in LuaInstances
       THEN [WIdleTask EXCEPT !.pc = "lock", !.req = r, !.tk = tk[1]]
       ELSE [WIdleTask EXCEPT !.pc = "done", !.req = r, !.tk = tk[1],
                !.result = CHOOSE o \in ToQueryOutcomes(tk[1], TextOf(r)) : TRUE]

NextId(entries) ==
    IF entries = {} THEN 1
    ELSE 1 + (CHOOSE n \in {e.id : e \in entries} : \A e \in entries : e.id <= n)

\* the insert-entry and insert-submission-entry statements of queries.sql
InsertRow(entries, r, tokens, status, via) ==
    entries \cup {[id |-> NextId(entries), lang |-> r.lang, content |-> r.content,
                   tokens |-> tokens, status |-> status,
                   explicit |-> r.tokens # <<>>, via |-> via, tk_failed |-> FALSE]}

\* the update-entry statement of queries.sql: the row takes the given fields
UpdateRow(entries, r, tokens) ==
    {IF e.id = r.id
     THEN [e EXCEPT !.lang = r.lang, !.content = r.content, !.tokens = tokens,
                    !.explicit = r.tokens # <<>>, !.via = "update",
                    !.tk_failed = FALSE]
     ELSE e : e \in entries}

LockFreeAlways(lk, tk) == TRUE

\* Mutex::lock returns when no thread holds the mutex
LockFree(lk, tk) == lk[tk] = 0

WInit ==
    /\ now = ClockStart
    /\ mode = "memory"
    /\ backend = EmptyMap
    /\ CacheIdle
    /\ KeyIdle
    /\ CallIdle
    /\ cacheEnabled = FALSE
    /\ store = [entries |-> {}, relations |-> {}]
    /\ procs = Procs
    /\ task = [p \in Procs |-> WIdleTask]
    /\ luaLock = [tk \in LuaInstances |-> 0]

\* a thread enters one of the Manager's operations
WBegin(p, r) ==
    /\ task[p].pc = "idle"
    /\ r.op \in {"insert", "submit"} => Cardinality(store.entries) < MaxStored
    /\ task' = [task EXCEPT ![p] =
                   IF r.op = "update" THEN UpdateStart(r)
                   ELSE IF r.op = "search" THEN SearchStart(r)
                   ELSE InsertStart(r)]
    /\ UNCHANGED <<now, mode, backend, cacheVars, keyVars, callVars,
                   cacheEnabled, store, procs, luaLock>>

\* call_tokenize / call_query: self.lua.lock()
WLock(p) ==
    /\ task[p].pc = "lock"
    /\ LockFree(luaLock, task[p].tk)
    /\ luaLock' = [luaLock EXCEPT ![task[p].tk] = p]
    /\ task' = [task EXCEPT ![p].pc = "in_lua"]
    /\ UNCHANGED <<now, mode, backend, cacheVars, keyVars, callVars,
                   cacheEnabled, store, procs>>

GuardKeptOnError(lk, tk, out) == IF out.ok THEN [lk EXCEPT ![tk] = 0] ELSE lk

\* call_tokenize / call_query: the MutexGuard is a local; it is dropped
\* when the function returns, through `?` as well as at its end
GuardDropped(lk, tk, out) == [lk EXCEPT ![tk] = 0]

\* call_tokenize / call_query: the script returns or raises, the guard is
\* dropped, and the caller goes on with the result or returns the error
WLuaReturn(p, out) ==
    /\ task[p].pc = "in_lua"
    /\ luaLock' = GuardDropped(luaLock, task[p].tk, out)
    /\ task' = [task EXCEPT ![p] =
                   IF ~out.ok
                   THEN [@ EXCEPT !.pc = "done", !.tk_failed = TRUE, !.result = out]
                   ELSE IF @.req.op = "search"
                   THEN [@ EXCEPT !.pc = "done", !.result = out]
                   ELSE [@ EXCEPT !.pc = "sql", !.tokens = Join(out.v, <<" ">>)]]
    /\ UNCHANGED <<now, mode, backend, cacheVars, keyVars, callVars,
                   cacheEnabled, store, procs>>

\* the statement of insert_entry, update_entry or insert_submission_entry
WSql(p, dbOk) ==
    /\ task[p].pc = "sql"
    /\ LET r == task[p].req
       IN IF ~dbOk
          THEN /\ task' = [task EXCEPT ![p].pc = "done",
                                       ![p].result = Err("Db", "database error")]
               /\ store' = store
          ELSE /\ task' = [task EXCEPT ![p].pc = "done",
                              ![p].result =
                                  Ok(IF r.op = "update" THEN r.id
                                     ELSE NextId(store.entries))]
               /\ store' = [store EXCEPT !.entries =
                               IF r.op = "update"
                               THEN UpdateRow(@, r, task[p].tokens)
                               ELSE IF r.op = "submit"
                               THEN InsertRow(@, r, task[p].tokens,
                                              STATUS_PENDING, "submit")
                               ELSE InsertRow(@, r, task[p].tokens,
                                              STATUS_ENABLED, "insert")]
    /\ UNCHANGED <<now, mode, backend, cacheVars, keyVars, callVars,
                   cacheEnabled, procs, luaLock>>

\* the caller has its result
WFinish(p) ==
    /\ task[p].pc = "done"
    /\ task' = [task EXCEPT ![p] = WIdleTask]
    /\ UNCHANGED <<now, mode, backend, cacheVars, keyVars, callVars,
                   cacheEnabled, store, procs, luaLock>>


\* parse_tokenizer_field on the values the tokenizer column takes here
parse_tokenizer_field(tokenizer) ==
    IF tokenizer = "" THEN None
    ELSE IF tokenizer \in {"default:english", "lua:f", "lua:s", "lua:y"}
    THEN Some(tokenizer)
    ELSE None

\* read_entry for a row of eleven columns; out is what the tokenizer's
\* tokenize returns when it is called
read_entry(row, out) ==
    LET entry == [lang |-> row.lang, content |-> row.content,
                  tokens |-> row.tokens, tk_failed |-> FALSE]
        tk_key == parse_tokenizer_field(row.tokenizer)
    IN IF row.lang \notin DOMAIN Langs
       THEN Err("Validation", "unknown language")
       ELSE IF row.content = <<>>
       THEN Err("Validation", "empty content")
       ELSE IF tk_key = None THEN Ok(entry)
       ELSE IF tk_key[1] \notin Tokenizers THEN Ok(entry)
       ELSE IF out.ok THEN Ok([entry EXCEPT !.tokens = Join(out.v, <<" ">>)])
       ELSE Ok([entry EXCEPT !.tk_failed = TRUE])

\* what the tokenizer a row names can return for its content
ImportOutcomes(row) ==
    IF parse_tokenizer_field(row.tokenizer) # None
       /\ parse_tokenizer_field(row.tokenizer)[1] \in Tokenizers
    THEN TokenizeOutcomes(parse_tokenizer_field(row.tokenizer)[1], row.content)
    ELSE {Ok(<<>>)}

\* insert_entries for one main entry
ImportInsert(entries, e, explicit) ==
    entries \cup {[id |-> NextId(entries), lang |-> e.lang, content |-> <<e.content>>,
                   tokens |-> e.tokens, status |-> STATUS_ENABLED,
                   explicit |-> explicit, via |-> "import",
                   tk_failed |-> e.tk_failed]}

\* import_csv for a file of one row, run by the import command with
\* tokenizers of its own
WImport(row, out) ==
    /\ Cardinality(store.entries) < MaxStored
    /\ store' = IF read_entry(row, out).ok
                THEN [store EXCEPT !.entries =
                         ImportInsert(@, read_entry(row, out).v,
                                      parse_tokenizer_field(row.tokenizer) = None
                                      /\ row.tokens # <<>>)]
                ELSE store
    /\ UNCHANGED <<now, mode, backend, cacheVars, keyVars, callVars,
                   cacheEnabled, procs, task, luaLock>>

\* what the script of a thread inside the interpreter can come to
LuaCallOutcomes(t) ==
    IF t.req.op = "search" THEN LuaQueryOutcomes(TextOf(t.req))
    ELSE LuaTokenizeOutcomes(TextOf(t.req))

WNext ==
    \/ \E p \in Procs, r \in WRequests : WBegin(p, r)
    \/ \E p \in Procs : WLock(p)
    \/ \E p \in Procs :
          /\ task[p].pc = "in_lua"
          /\ \E out \in LuaCallOutcomes(task[p]) : WLuaReturn(p, out)
    \/ \E p \in Procs, dbOk \in BOOLEAN : WSql(p, dbOk)
    \/ \E p \in Procs : WFinish(p)
    \/ \E row \in ImportRows : \E out \in ImportOutcomes(row) : WImport(row, out)

SpecWrites == WInit /\ [][WNext]_vars

\* insert_entry and update_entry alone
CrudNext ==
    \/ \E p \in Procs, r \in {w \in WRequests : w.op \in {"insert", "update"}} :
          WBegin(p, r)
    \/ \E p \in Procs : WLock(p)
    \/ \E p \in Procs :
          /\ task[p].pc = "in_lua"
          /\ \E out \in LuaCallOutcomes(task[p]) : WLuaReturn(p, out)
    \/ \E p \in Procs, dbOk \in BOOLEAN : WSql(p, dbOk)
    \/ \E p \in Procs : WFinish(p)

SpecCrud == WInit /\ [][CrudNext]_vars


(***************************************************************************)
(* Properties of the tokenizer calls and the writes                        *)
(***************************************************************************)
WDone(p) == task[p].pc = "done"

\* a configured language whose tokenizer identity is not in the registry
Unresolvable(lang) == lang \in DOMAIN Langs /\ Langs[lang] \notin Tokenizers

\* C16: for a language whose tokenizer identity is not in the registry a
\* write gets the tokens of the Simple tokenizer and a search gets the
\* query of the Simple tokenizer; neither fails for that reason.
C16_UnknownIdentityFallsBack ==
    \A p \in Procs :
        (WDone(p) /\ Unresolvable(task[p].req.lang)) =>
            IF task[p].req.op = "search"
            THEN task[p].result = Ok(SimpleToQuery(TextOf(task[p].req)))
            ELSE task[p].req.tokens = <<>> =>
                    task[p].tokens =
                        Join(SimpleTokenize(TextOf(task[p].req)), <<" ">>)

\* C17: a call whose tokenizer returned an error ends in an error, and no
\* stored entry was written by an operation whose tokenizer had failed.
C17_TokenizerFailurePropagates ==
    /\ \A p \in Procs : (WDone(p) /\ task[p].tk_failed) => ~task[p].result.ok
    /\ \A e \in store.entries : ~e.tk_failed

\* the threads inside the interpreter of a LuaTokenizer instance
InLua(tk) == {p \in Procs : task[p].pc = "in_lua" /\ task[p].tk = tk}

\* C19: at most one thread is inside the interpreter of a LuaTokenizer
\* instance; only calls of a LuaTokenizer ever wait for or hold a lock; and
\* a thread at lock() of an instance no thread is inside of can go on,
\* whatever the other instances' locks are.
C19_LuaMutualExclusion ==
    /\ \A tk \in LuaInstances : Cardinality(InLua(tk)) <= 1
    /\ \A p \in Procs :
          task[p].pc \in {"lock", "in_lua"} => task[p].tk \in LuaInstances
    /\ \A p \in Procs :
          (task[p].pc = "lock" /\ InLua(task[p].tk) = {}) => ENABLED WLock(p)

\* one thread is inside the interpreter of lua:f and the other waits for it
C19_Witness ==
    \E p, q \in Procs :
        /\ task[p].pc = "in_lua" /\ task[p].tk = "lua:f"
        /\ task[q].pc = "lock" /\ task[q].tk = "lua:f"
        /\ luaLock["lua:f"] = p

\* the tokens the tokenizer tk gives a text when it does not fail
TokensOf(tk, text) == (CHOOSE o \in TokenizeOutcomes(tk, text) : o.ok).v

FileNames == {"f", "y"}

FileKinds ==
    [is_lua : BOOLEAN, read_ok : BOOLEAN, parse_ok : BOOLEAN,
     tokenize_ok : BOOLEAN, query_ok : BOOLEAN]

\* the tokenizers directory: not configured, not existing, existing but
\* not listable, or listed
Dirs == {"none", "missing", "unreadable", "listed"}

\* format!("lua:{}", name)
LuaId(name) == IF name = "f" THEN "lua:f" ELSE IF name = "y" THEN "lua:y" ELSE "lua:s"

\* format!("default:{}", name) for the built-in stemmers
DefaultIds ==
    {"default:arabic", "default:danish", "default:dutch", "default:english",
     "default:finnish", "default:french", "default:german", "default:greek",
     "default:hungarian", "default:italian", "default:norwegian",
     "default:portuguese", "default:romanian", "default:russian",
     "default:spanish", "default:swedish", "default:tamil", "default:turkish"}

\* LuaTokenizer::from_file
from_file(f) ==
    IF ~f.read_ok THEN Err("Io", "io error")
    ELSE IF ~f.parse_ok THEN Err("Lua", "lua error")
    ELSE Ok(f)

CanaryTokenizeOnly(f) == [calls |-> <<"tokenize">>, ok |-> f.tokenize_ok]

\* load_all, lines 155-162: the calls made to validate a script and
\* whether it passed
Canary(f) ==
    IF ~f.tokenize_ok THEN [calls |-> <<"tokenize">>, ok |-> FALSE]
    ELSE [calls |-> <<"tokenize", "to_query">>, ok |-> f.query_ok]

\* load_all: the registry's identities, with the validation calls made
load_all(dir, files) ==
    LET builtin == {"simple"} \cup DefaultIds
        scripts == {n \in DOMAIN files : files[n].is_lua /\ from_file(files[n]).ok}
        loaded == {n \in scripts : Canary(files[n]).ok}
    IN IF dir \in {"none", "missing"}
       THEN Ok([ids |-> builtin, canary |-> EmptyMap])
       ELSE IF dir = "unreadable" THEN Err("Io", "io error")
       ELSE Ok([ids |-> builtin \cup {LuaId(n) : n \in loaded},
                canary |-> [n \in scripts |-> Canary(files[n])]])

LInit ==
    /\ now = ClockStart
    /\ mode = "memory"
    /\ backend = EmptyMap
    /\ CacheIdle
    /\ KeyIdle
    /\ SearchIdle
    /\ LockIdle
    /\ fx \in UNION {[dir : Dirs, files : [names -> FileKinds]] :
                        names \in SUBSET FileNames}
    /\ fy = <<>>

LoadAll ==
    /\ fy = <<>>
    /\ fy' = <<load_all(fx.dir, fx.files)>>
    /\ UNCHANGED <<now, mode, backend, cacheVars, keyVars, searchVars, fx, luaLock>>

LNext == LoadAll

SpecLoad == LInit /\ [][LNext]_vars

\* a script that cannot be read or run, or that fails a validation call
BadScript(f) == ~f.read_ok \/ ~f.parse_ok \/ ~f.tokenize_ok \/ ~f.query_ok

\* C18: load_all fails only when the directory cannot be listed; when it
\* returns Ok the registry holds simple and every default identity, every
\* lua identity in it passed a tokenize and a to_query validation call, and
\* no script that fails to read, to run or to pass either call is in it.
C18_LoadValidation ==
    fy # <<>> =>
        /\ fx.dir # "unreadable" => fy[1].ok
        /\ fy[1].ok =>
              /\ "simple" \in fy[1].v.ids
              /\ DefaultIds \subseteq fy[1].v.ids
              /\ \A n \in FileNames :
                    LuaId(n) \in fy[1].v.ids =>
                        /\ n \in DOMAIN fy[1].v.canary
                        /\ fy[1].v.canary[n].calls = <<"tokenize", "to_query">>
                        /\ fx.files[n].tokenize_ok /\ fx.files[n].query_ok
              /\ \A n \in DOMAIN fx.files :
                    BadScript(fx.files[n]) => LuaId(n) \notin fy[1].v.ids

\* a directory with a script that passes and one whose query fails
C18_Witness ==
    /\ fy # <<>> /\ fy[1].ok
    /\ fx.dir = "listed"
    /\ DOMAIN fx.files = FileNames
    /\ "lua:f" \in fy[1].v.ids
    /\ "lua:y" \notin fy[1].v.ids
    /\ fx.files["y"].is_lua /\ fx.files["y"].tokenize_ok /\ ~fx.files["y"].query_ok


(***************************************************************************)
(* Two public searches at a time: the API search and the site's search     *)
(* page run do_search on the same Ctx, so on the same cache and store.     *)
(***************************************************************************)
SharedEntries ==
    {[id |-> 1, guid |-> "g1", lang |-> EN, content |-> <<Str("a")>>,
      tokens |-> Str("a"), status |-> STATUS_ENABLED],
     [id |-> 2, guid |-> "g2", lang |-> FR,
      content |-> <<Str("b"), Str("c"), Str("d"), Str("e"), Str("f"), Str("g")>>,
      tokens |-> Str("b"), status |-> STATUS_ENABLED]}

SharedRelations ==
    {[id |-> 1, from_id |-> 1, to_id |-> 2, types |-> <<Str("b")>>,
      tags |-> <<>>, weight |-> 0, status |-> STATUS_ENABLED]}

\* GET /api/dictionary/e/f/a and GET /dictionary/e/f/a, and the API search
\* with ?tag=t:q&status=enabled and with ?tag=t&status=q:enabled
SharedRequests ==
    LET r(endpoint, tags, status) ==
            [endpoint |-> endpoint, from_lang |-> EN, to_lang |-> FR,
             query |-> Str("a"), types |-> <<>>, tags |-> tags,
             status |-> status, page |-> 0, per_page |-> 0]
    IN {r("api", <<>>, <<>>),
        r("site", <<>>, <<>>),
        r("api", <<<<"t", ":", "q">>>>, STATUS_ENABLED),
        r("api", <<Str("t")>>, <<"q", ":">> \o STATUS_ENABLED)}

SInit ==
    /\ now = ClockStart
    /\ cacheEnabled = TRUE
    /\ mode = "memory"
    /\ backend = EmptyMap
    /\ store = [entries |-> SharedEntries, relations |-> SharedRelations]
    /\ procs = Procs
    /\ task = [p \in Procs |-> IdleTask]
    /\ CacheIdle
    /\ KeyIdle
    /\ CallIdle
    /\ LockIdle

\* the step a suspended task takes when its await returns
Resume(p) ==
    \/ DoCacheGet(p, FALSE)
    \/ /\ task[p].pc = "search"
       /\ \E out \in ManagerSearch(store, task[p].query, task[p].query.offset,
                                   task[p].query.limit) :
              DoManagerSearch(p, out)
    \/ /\ task[p].pc = "load"
       /\ \E out \in LoadRelations(store, task[p].entries,
                                   RelationsQueryOf(task[p].query)) :
              DoLoadRelations(p, out, TRUE)

SNext ==
    \/ \E p \in Procs, r \in SharedRequests : Begin(p, r)
    \/ \E p \in Procs : Resume(p)
    \/ \E p \in Procs : Finish(p)

SpecShared == SInit /\ [][SNext]_vars

\* the task found nothing under its key
Missed(p) == p \in procs /\ task[p].probe = "absent"

\* the await of the task can return: the cache probe and the store search
\* as steps of the task, the relations query by the results it can give
CanResume(p) ==
    /\ task[p].pc = "cache_get" => ENABLED DoCacheGet(p, FALSE)
    /\ task[p].pc = "search"
       => ENABLED (\E out \in ManagerSearch(store, task[p].query,
                                            task[p].query.offset,
                                            task[p].query.limit) :
                      DoManagerSearch(p, out))
    /\ task[p].pc = "load"
       => LoadRelations(store, task[p].entries,
                        RelationsQueryOf(task[p].query)) # {}

\* C21: there is no single-flight.  A public search that missed is never
\* held back by another search of the same key: at each await it can go
\* on; when it succeeds it has queried the store and loaded the relations
\* itself, its response is the result of its own computation, and it has
\* called Cache::put; and each put leaves under the key the payload of that
\* put, so the entry is the payload of whichever put came last.
C21_NoSingleFlight ==
    /\ [](\A p \in Procs :
            /\ (p \in procs /\ task[p].pc \in {"cache_get", "search", "load"})
               => CanResume(p)
            /\ (Done(p) /\ Missed(p) /\ task[p].resp[1].ok)
               => /\ {"search", "query", "load", "put"} \subseteq task[p].trace
                  /\ task[p].resp[1] \in NoCacheResponses(task[p]))
    /\ [][\A p \in Procs :
            (task[p].pc = "load" /\ "put" \in task'[p].trace)
            => /\ task[p].cache_key[1] \in DOMAIN backend'
               /\ backend'[task[p].cache_key[1]] =
                      PutU64Le(now) \o to_vec_named(task'[p].resp[1].v)]_vars

\* two searches of one key have both missed, both computed and both put,
\* and their results differ
C21_Witness ==
    /\ Done(1) /\ Done(2)
    /\ Missed(1) /\ Missed(2)
    /\ task[1].cache_key = task[2].cache_key
    /\ "put" \in task[1].trace /\ "put" \in task[2].trace
    /\ task[1].resp[1].ok /\ task[2].resp[1].ok
    /\ task[1].resp[1] # task[2].resp[1]

InsertEntryStmt(st, e) == [st EXCEPT !.entries = @ \cup {e}]

\* update-entry
UpdateEntryStmt(st, id, e) ==
    [st EXCEPT !.entries =
        {IF x.id = id
         THEN [x EXCEPT !.content = e.content, !.lang = e.lang,
                        !.tokens = e.tokens, !.status = e.status]
         ELSE x : x \in @}]

\* delete-entry: the entry goes, and with it the relations from and to it
DeleteEntryStmt(st, id) ==
    [entries |-> {x \in st.entries : x.id # id},
     relations |-> {r \in st.relations : r.from_id # id /\ r.to_id # id}]

\* insert-relation
InsertRelationStmt(st, r) == [st EXCEPT !.relations = @ \cup {r}]

\* update-relation
UpdateRelationStmt(st, id, r) ==
    [st EXCEPT !.relations =
        {IF x.id = id
         THEN [x EXCEPT !.types = r.types, !.tags = r.tags,
                        !.weight = r.weight, !.status = r.status]
         ELSE x : x \in @}]

\* delete-relation
DeleteRelationStmt(st, id) ==
    [st EXCEPT !.relations = {x \in @ : x.id # id}]

\* reorder-relations: each listed relation takes its position as weight
ReorderRelationsStmt(st, ids) ==
    [st EXCEPT !.relations =
        {IF \E i \in 1..Len(ids) : ids[i] = x.id
         THEN [x EXCEPT !.weight = (CHOOSE i \in 1..Len(ids) : ids[i] = x.id) - 1]
         ELSE x : x \in @}]

\* the entries the pending relations of a submission lead to
SubmissionTargets(st, id) ==
    {r.to_id : r \in {x \in st.relations :
                         x.from_id = id /\ x.status = STATUS_PENDING}}

\* approve-submission: the pending entry is enabled
ApproveSubmissionStmt(st, id) ==
    [st EXCEPT !.entries =
        {IF x.id = id /\ x.status = STATUS_PENDING
         THEN [x EXCEPT !.status = STATUS_ENABLED] ELSE x : x \in @}]

\* approve-submission-relations: its pending relations are enabled
ApproveSubmissionRelationsStmt(st, id) ==
    [st EXCEPT !.relations =
        {IF x.from_id = id /\ x.status = STATUS_PENDING
         THEN [x EXCEPT !.status = STATUS_ENABLED] ELSE x : x \in @}]

\* approve-submission-to-entries: the pending entries its relations lead to
\* are enabled
ApproveSubmissionToEntriesStmt(st, id) ==
    [st EXCEPT !.entries =
        {IF x.status = STATUS_PENDING
            /\ \E r \in st.relations : r.from_id = id /\ r.to_id = x.id
         THEN [x EXCEPT !.status = STATUS_ENABLED] ELSE x : x \in @}]

\* reject-submission-to-entries: the pending entries its pending relations
\* lead to are deleted
RejectSubmissionToEntriesStmt(st, id) ==
    [st EXCEPT !.entries =
        {x \in @ : ~(x.status = STATUS_PENDING
                     /\ x.id \in SubmissionTargets(st, id))}]

\* reject-submission-relations: its pending relations are deleted
RejectSubmissionRelationsStmt(st, id) ==
    [st EXCEPT !.relations =
        {x \in @ : ~(x.from_id = id /\ x.status = STATUS_PENDING)}]

\* reject-submission: the pending entry is deleted
RejectSubmissionStmt(st, id) ==
    [st EXCEPT !.entries =
        {x \in @ : ~(x.id = id /\ x.status = STATUS_PENDING)}]

\* the statements of an operation, in the order the Manager runs them
StatementsOf(op) ==
    IF op = "approve_submission"
    THEN <<"approve-submission", "approve-submission-relations",
           "approve-submission-to-entries">>
    ELSE IF op = "reject_submission"
    THEN <<"reject-submission-to-entries", "reject-submission-relations",
           "reject-submission">>
    ELSE IF op = "insert_entry" THEN <<"insert-entry">>
    ELSE IF op = "update_entry" THEN <<"update-entry">>
    ELSE IF op = "delete_entry" THEN <<"delete-entry">>
    ELSE IF op = "insert_relation" THEN <<"insert-relation">>
    ELSE IF op = "update_relation" THEN <<"update-relation">>
    ELSE IF op = "delete_relation" THEN <<"delete-relation">>
    ELSE <<"reorder-relations">>

\* the store after a statement of the call c
RunStatement(st, stmt, c) ==
    IF stmt = "insert-entry" THEN InsertEntryStmt(st, c.entry)
    ELSE IF stmt = "update-entry" THEN UpdateEntryStmt(st, c.id, c.entry)
    ELSE IF stmt = "delete-entry" THEN DeleteEntryStmt(st, c.id)
    ELSE IF stmt = "insert-relation" THEN InsertRelationStmt(st, c.relation)
    ELSE IF stmt = "update-relation" THEN UpdateRelationStmt(st, c.id, c.relation)
    ELSE IF stmt = "delete-relation" THEN DeleteRelationStmt(st, c.id)
    ELSE IF stmt = "reorder-relations" THEN ReorderRelationsStmt(st, c.ids)
    ELSE IF stmt = "approve-submission" THEN ApproveSubmissionStmt(st, c.id)
    ELSE IF stmt = "approve-submission-relations"
    THEN ApproveSubmissionRelationsStmt(st, c.id)
    ELSE IF stmt = "approve-submission-to-entries"
    THEN ApproveSubmissionToEntriesStmt(st, c.id)
    ELSE IF stmt = "reject-submission-to-entries"
    THEN RejectSubmissionToEntriesStmt(st, c.id)
    ELSE IF stmt = "reject-submission-relations"
    THEN RejectSubmissionRelationsStmt(st, c.id)
    ELSE RejectSubmissionStmt(st, c.id)


\* a caller of the Manager between calls; calls counts the calls it has made
MgrIdle == [pc |-> "w_idle", call |-> <<>>, step |-> 0, calls |-> 0, result |-> None]

MgrCacheInvalidated(bk, c) == EmptyMap

\* the cache after a statement of a Manager operation: the Manager holds
\* the pool, the tokenizers, the languages and the dictionaries, and no
\* handler of a write uses Ctx.cache
MgrCacheAfter(bk, c) == bk

\* a handler calls a write operation of the Manager
MgrBegin(p, c) ==
    /\ p \notin procs
    /\ task[p].pc = "w_idle"
    /\ task' = [task EXCEPT ![p] =
                   [pc |-> "w_run", call |-> c, step |-> 1,
                    calls |-> task[p].calls + 1, result |-> None]]
    /\ UNCHANGED <<now, mode, backend, cacheVars, keyVars, callVars,
                   cacheEnabled, store, procs, luaLock>>

\* the next statement of the operation is executed and awaited: on an
\* error the operation returns it, after the last statement it returns Ok
MgrStatement(p, dbOk) ==
    /\ p \notin procs
    /\ task[p].pc = "w_run"
    /\ LET c == task[p].call
           stmts == StatementsOf(c.op)
       IN /\ store' = IF dbOk THEN RunStatement(store, stmts[task[p].step], c)
                      ELSE store
          /\ backend' = MgrCacheAfter(backend, c)
          /\ task' = [task EXCEPT ![p] =
                IF ~dbOk
                THEN [@ EXCEPT !.pc = "w_done",
                               !.result = Some(Err("Db", "database error"))]
                ELSE IF task[p].step = Len(stmts)
                THEN [@ EXCEPT !.pc = "w_done", !.step = @ + 1,
                               !.result = Some(Ok(c.id))]
                ELSE [@ EXCEPT !.step = @ + 1]]
    /\ UNCHANGED <<now, mode, cacheVars, keyVars, callVars, cacheEnabled,
                   procs, luaLock>>

\* the request is dropped while the operation awaits a statement
MgrCancel(p) ==
    /\ p \notin procs
    /\ task[p].pc = "w_run"
    /\ task' = [task EXCEPT ![p] =
                   [@ EXCEPT !.pc = "w_done", !.result = None]]
    /\ UNCHANGED <<now, mode, backend, cacheVars, keyVars, callVars,
                   cacheEnabled, store, procs, luaLock>>

\* the handler has answered
MgrFinish(p) ==
    /\ p \notin procs
    /\ task[p].pc = "w_done"
    /\ task' = [task EXCEPT ![p] = [MgrIdle EXCEPT !.calls = task[p].calls]]
    /\ UNCHANGED <<now, mode, backend, cacheVars, keyVars, callVars,
                   cacheEnabled, store, procs, luaLock>>

(***************************************************************************)
(* A public and an admin search of one query while an administrator edits  *)
(* the dictionary.                                                         *)
(***************************************************************************)
StaleEntries ==
    LET e(id, guid, lang, word, status) ==
            [id |-> id, guid |-> guid, lang |-> lang, content |-> <<Str(word)>>,
             tokens |-> Str(word), status |-> status]
    IN {e(1, "g1", EN, "a", STATUS_ENABLED),
        e(2, "g2", FR, "b", STATUS_ENABLED),
        e(5, "g5", EN, "b", STATUS_PENDING),
        e(6, "g6", FR, "c", STATUS_PENDING),
        e(8, "g8", EN, "b", STATUS_PENDING)}

StaleRelations ==
    {[id |-> 1, from_id |-> 1, to_id |-> 2, types |-> <<Str("b")>>,
      tags |-> <<>>, weight |-> 0, status |-> STATUS_ENABLED],
     [id |-> 5, from_id |-> 5, to_id |-> 6, types |-> <<Str("b")>>,
      tags |-> <<>>, weight |-> 0, status |-> STATUS_PENDING]}

\* the administrator's calls, in order
StaleScript ==
    LET call(op, id) == [op |-> op, id |-> id]
        entry(word) == [lang |-> EN, content |-> <<Str(word)>>,
                        tokens |-> Str(word), status |-> STATUS_ENABLED]
        rel(id, to_id, type, weight) ==
            [id |-> id, from_id |-> 9, to_id |-> to_id, types |-> <<Str(type)>>,
             tags |-> <<>>, weight |-> weight, status |-> STATUS_ENABLED]
    IN <<call("insert_entry", 9) @@ [entry |-> entry("b") @@ [id |-> 9, guid |-> "g9"]],
         call("insert_relation", 6) @@ [relation |-> rel(6, 2, "b", 0)],
         call("insert_relation", 7) @@ [relation |-> rel(7, 1, "b", 1)],
         call("reorder_relations", 0) @@ [ids |-> <<7, 6>>],
         call("update_relation", 6) @@ [relation |-> rel(6, 2, "c", 1)],
         call("delete_relation", 7),
         call("update_entry", 9) @@ [entry |-> entry("c")],
         call("approve_submission", 5),
         call("reject_submission", 8),
         call("delete_entry", 9)>>

StaleRequests ==
    {[endpoint |-> ep, from_lang |-> EN, to_lang |-> Str("*"),
      query |-> Str("b"), types |-> <<>>, tags |-> <<>>, status |-> <<>>,
      page |-> 0, per_page |-> 0] : ep \in {"api", "admin"}}

StInit ==
    /\ now = ClockStart
    /\ cacheEnabled = TRUE
    /\ mode = "memory"
    /\ backend = EmptyMap
    /\ store = [entries |-> StaleEntries, relations |-> StaleRelations]
    /\ procs = {1}
    /\ task = [p \in Procs |-> IF p = 1 THEN IdleTask ELSE MgrIdle]
    /\ CacheIdle
    /\ KeyIdle
    /\ CallIdle
    /\ LockIdle

StNext ==
    \/ Tick
    \/ \E r \in StaleRequests : Begin(1, r)
    \/ Resume(1)
    \/ Finish(1)
    \/ /\ task[2].calls < Len(StaleScript)
       /\ MgrBegin(2, StaleScript[task[2].calls + 1])
    \/ MgrStatement(2, TRUE)
    \/ MgrFinish(2)

SpecStale == StInit /\ [][StNext]_vars

\* C22: no step of a write operation changes the cache; a public search
\* that finds nothing usable in the cache and an admin search answer from
\* the store as it is when they read it, whatever the cache holds.
C22_WritesLeaveCache ==
    /\ [][\A p \in Procs \ procs : task'[p] # task[p] => backend' = backend]_vars
    /\ [](\A p \in procs :
            (Done(p) /\ task[p].resp[1].ok /\ task[p].seen = {store}
             /\ (task[p].is_admin \/ task[p].probe \in {"absent", "expired"}))
            => task[p].resp[1] \in NoCacheResponses(task[p]))

\* after a write a public search is answered from the cache with a result
\* the store no longer gives
C22_Witness ==
    /\ Done(1)
    /\ ~task[1].is_admin
    /\ task[1].probe = "hit"
    /\ store.entries # StaleEntries
    /\ Ok(task[1].resp[1].v) \notin NoCacheResponses(task[1])


(***************************************************************************)
(* What the cache holds                                                    *)
(***************************************************************************)
\* the id of a serialized entry or relation: a field left out is the
\* default, 0
EncodedId(d) == IF "id" \in DOMAIN d THEN d.id ELSE 0

\* every id of a serialized result is zero
EncodedIdsZero(doc) ==
    \A i \in 1..Len(doc.entries) :
        LET e == doc.entries[i] IN
        /\ EncodedId(e) = 0
        /\ "relations" \in DOMAIN e
           => \A j \in 1..Len(e.relations) :
                  /\ EncodedId(e.relations[j]) = 0
                  /\ "relation" \in DOMAIN e.relations[j]
                  /\ EncodedId(e.relations[j].relation) = 0

\* C24: every payload held under a search cache key is a result in which
\* the id of every root entry, related entry and relation is 0.
C24_CacheHoldsRedacted ==
    \A k \in DOMAIN backend :
        Len(backend[k]) > TTL_PREFIX_SIZE
        => EncodedIdsZero(PayloadOf(backend[k])[1])

\* the cache holds a result with a related entry while an admin search of
\* the same words has been answered with the ids
C24_Witness ==
    /\ \E k \in DOMAIN backend :
          /\ Len(backend[k]) > TTL_PREFIX_SIZE
          /\ \E i \in 1..Len(PayloadOf(backend[k])[1].entries) :
                "relations" \in DOMAIN PayloadOf(backend[k])[1].entries[i]
    /\ \E p \in Procs :
          /\ Done(p)
          /\ task[p].is_admin
          /\ task[p].resp[1].ok
          /\ task[p].resp[1].v.entries # <<>>


\* the step of a task that ends do_search with results after both store
\* calls returned Ok
FullSuccess(p) ==
    /\ task[p].pc = "load"
    /\ task'[p].pc = "done"
    /\ task'[p].resp[1].ok
    /\ {"search", "query", "load"} \subseteq task'[p].trace
    /\ task'[p].search_err = "none"

\* C25: a key gets a new value in the cache only in the step in which a
\* do_search for that key ends after Manager::search and load_relations
\* both returned Ok, and the value is the serialized results of that call;
\* a step in which either returns an error, or in which the request is
\* dropped, leaves the cache as it was, and the error is the response.
C25_PutOnlyOnSuccess ==
    /\ [][/\ \A k \in DOMAIN backend' :
                (k \notin DOMAIN backend \/ backend'[k] # backend[k])
                => \E p \in Procs :
                      /\ FullSuccess(p)
                      /\ task[p].cache_key = Some(k)
                      /\ backend'[k] =
                            PutU64Le(now) \o to_vec_named(task'[p].resp[1].v)
          /\ \A p \in Procs :
                (task[p].pc \in {"search", "load"} /\ task'[p].pc # task[p].pc
                 /\ ~FullSuccess(p) /\ task'[p].pc # "load")
                => backend' = backend]_vars
    /\ [](\A p \in Procs :
            Done(p) =>
               /\ "put" \in task[p].trace
                  => task[p].resp[1].ok /\ task[p].search_err = "none"
               /\ task[p].search_err # "none"
                  => /\ ~task[p].resp[1].ok
                     /\ task[p].resp[1].status = INTERNAL_SERVER_ERROR
                     /\ task[p].trace \cap {"load", "put"} = {}
               /\ ("load" \in task[p].trace /\ task[p].resp[1].ok
                   /\ task[p].cache_key # None /\ ~task[p].enc_failed)
                  => "put" \in task[p].trace
               /\ ("load" \in task[p].trace /\ ~task[p].resp[1].ok)
                  => /\ task[p].resp[1] =
                            ApiErr("database error", INTERNAL_SERVER_ERROR)
                     /\ "put" \notin task[p].trace)

\* a public search has failed in load_relations after its search returned
\* entries, and the cache holds nothing under its key
C25_Witness ==
    \E p \in Procs :
        /\ Done(p)
        /\ ~task[p].is_admin
        /\ task[p].cache_key # None
        /\ "load" \in task[p].trace
        /\ ~task[p].resp[1].ok
        /\ task[p].cache_key[1] \notin DOMAIN backend


(***************************************************************************)
(* Manager::load_relations on the rows the relations query returns         *)
(***************************************************************************)
MaxRows == 3

AttachAllKeepsOld(entries, rows) ==
    IF entries = <<>> THEN entries ELSE AttachFrom(entries, rows, 1)

\* load_relations, lines 127-136 and 155-175: the entries after the call
\* when the query returns the rows
AttachAll(entries, rows) ==
    IF entries = <<>> THEN entries
    ELSE AttachFrom([i \in 1..Len(entries) |->
                        [entries[i] EXCEPT !.relations = <<>>]], rows, 1)

\* rows of the relations query: the related entry with the flat relation
\* fields; 7 is the id of no root
AttachRowPool ==
    LET row(to_id, from_id, relation_id, total_relations) ==
            [EntryRow(CHOOSE e \in RelEntries : e.id = to_id, 0) EXCEPT
                !.from_id = from_id, !.relation_id = relation_id,
                !.total_relations = total_relations]
            @@ [relation_types |-> <<Str("b")>>, relation_weight |-> 0,
                relation_status |-> STATUS_ENABLED]
    IN {row(2, 1, 1, 3), row(3, 1, 2, 5), row(2, 4, 3, 1), row(5, 7, 4, 1)}

\* the roots as they come from the search, and as a caller passes them
\* again with the relations of an earlier call
AttachRoots ==
    LET old == [EntryRow(CHOOSE e \in RelEntries : e.id = 5, 0) EXCEPT
                   !.from_id = 1, !.relation_id = 9,
                   !.relation = Some([id |-> 9, types |-> <<Str("x")>>,
                                      weight |-> 0, status |-> STATUS_ENABLED])]
    IN {<<>>,
        RelRoots,
        [i \in 1..Len(RelRoots) |->
            [RelRoots[i] EXCEPT !.relations = <<old>>, !.total_relations = 9]]}

AtInit ==
    /\ now = ClockStart
    /\ mode = "memory"
    /\ backend = EmptyMap
    /\ CacheIdle
    /\ KeyIdle
    /\ SearchIdle
    /\ LockIdle
    /\ fx \in [roots : AttachRoots, rows : SeqsUpTo(AttachRowPool, MaxRows)]
    /\ fy = <<>>

Attach ==
    /\ fy = <<>>
    /\ fy' = <<AttachAll(fx.roots, fx.rows)>>
    /\ UNCHANGED <<now, mode, backend, cacheVars, keyVars, searchVars, fx, luaLock>>

AtNext == Attach

SpecAttach == AtInit /\ [][AtNext]_vars

\* the rows of a root, in the order of the query
RowsOf(id) == SelectSeq(fx.rows, LAMBDA r : r.from_id = id)

\* C26: after load_relations the relations list of a root is the rows with
\* its id as from_id, in the order of the query, each with its relation
\* set from the flat fields; what the root carried before is gone; a row of
\* no root is dropped; and a root with rows has the total_relations of its
\* first row.
C26_Attachment ==
    fy # <<>> =>
        /\ Len(fy[1]) = Len(fx.roots)
        /\ \A n \in 1..Len(fy[1]) :
              LET root == fy[1][n]
                  rows == RowsOf(root.id)
              IN /\ root.id = fx.roots[n].id
                 /\ Len(root.relations) = Len(rows)
                 /\ \A i \in 1..Len(rows) :
                       LET r == root.relations[i] IN
                       /\ r.relation # None
                       /\ r.relation[1].id = rows[i].relation_id
                       /\ r.relation[1].types = rows[i].relation_types
                       /\ r.relation_id = rows[i].relation_id
                       /\ r.from_id = root.id
                       /\ r.id = rows[i].id
                 /\ rows # <<>> => root.total_relations = rows[1].total_relations

\* roots that carried a relation are given two rows of the first root with
\* different totals and a row of no root
C26_Witness ==
    /\ fy # <<>>
    /\ fx.roots # <<>>
    /\ fx.roots[1].relations # <<>>
    /\ Len(RowsOf(1)) = 2
    /\ RowsOf(1)[1].total_relations # RowsOf(1)[2].total_relations
    /\ Len(RowsOf(7)) = 1
    /\ Len(fy[1][1].relations) = 2


(***************************************************************************)
(* paginate on the page and per_page a request can carry                   *)
(***************************************************************************)
\* values of the i32 query parameters page and per_page
PageSamples == {I32_MIN, -1, 0, 1, 2, 20, 21, 107374183, I32_MAX}

\* the api_results and site_results configurations: max_per_page and
\* default per_page
PageConfigs ==
    {[max_per_page |-> 20, default_per_page |-> 10],
     [max_per_page |-> 1, default_per_page |-> 1],
     [max_per_page |-> 20, default_per_page |-> 30]}

PInit ==
    /\ now = ClockStart
    /\ mode = "memory"
    /\ backend = EmptyMap
    /\ CacheIdle
    /\ KeyIdle
    /\ SearchIdle
    /\ LockIdle
    /\ fx \in [page : PageSamples, per_page : PageSamples, config : PageConfigs]
    /\ fy = <<>>

Paginate ==
    /\ fy = <<>>
    /\ \E out \in PaginateOutcomes(fx.page, fx.per_page, fx.config.max_per_page,
                                   fx.config.default_per_page) :
          fy' = <<out>>
    /\ UNCHANGED <<now, mode, backend, cacheVars, keyVars, searchVars, fx, luaLock>>

PNext == Paginate

SpecPage == PInit /\ [][PNext]_vars

\* C27: for every page and per_page and every configuration with
\* default_per_page >= 1 and max_per_page >= 1, paginate returns a page
\* >= 1, a per_page from 1 to max_per_page, and the offset
\* (page - 1) * per_page, which is not negative.
C27_Pagination ==
    fy # <<>> =>
        /\ fy[1].ok
        /\ fy[1].v[1] >= 1
        /\ fy[1].v[2] >= 1
        /\ fy[1].v[2] <= fx.config.max_per_page
        /\ fy[1].v[3] >= 0
        /\ fy[1].v[3] % fy[1].v[2] = 0
        /\ fy[1].v[3] \div fy[1].v[2] = fy[1].v[1] - 1


(***************************************************************************)
(* Calls into the scripted tokenizers alone, with the scheduling the       *)
(* liveness of the lock rests on: a call into a script returns, and a      *)
(* thread that finds the mutex free again and again gets it.               *)
(***************************************************************************)
LuaRequests ==
    {w \in WRequests : /\ w.op \in {"search", "update"}
                       /\ w.lang \in {FR, YI}
                       /\ w.tokens = <<>>}

\* the script of the thread returns
LuaReturns(p) ==
    /\ task[p].pc = "in_lua"
    /\ \E out \in LuaCallOutcomes(task[p]) : WLuaReturn(p, out)

LuaNext ==
    \/ \E p \in Procs, r \in LuaRequests : WBegin(p, r)
    \/ \E p \in Procs : WLock(p)
    \/ \E p \in Procs : LuaReturns(p)
    \/ \E p \in Procs, dbOk \in BOOLEAN : WSql(p, dbOk)
    \/ \E p \in Procs : WFinish(p)

SpecLua ==
    /\ WInit
    /\ [][LuaNext]_vars
    /\ \A p \in Procs : WF_vars(LuaReturns(p)) /\ SF_vars(WLock(p))

\* C28: when a call into a LuaTokenizer returns, with a value or with a
\* script error, the instance's lock is free; and a thread that waits for
\* the lock of a scripted tokenizer eventually enters the script.
C28_LockReleased ==
    /\ [][\A p \in Procs :
            (task[p].pc = "in_lua" /\ task'[p].pc # "in_lua")
            => luaLock'[task[p].tk] = 0]_vars
    /\ \A p \in Procs : (task[p].pc = "lock") ~> (task[p].pc = "in_lua")

\* a call has failed in the script and the other thread is inside the same
\* script
C28_Witness ==
    /\ WDone(1)
    /\ task[1].tk_failed
    /\ task[2].pc = "in_lua"
    /\ task[2].tk = task[1].tk


(***************************************************************************)
(* The moderation of one submission: entry 5 with a pending relation to    *)
(* the pending entry 6, approved and rejected by two administrators.       *)
(***************************************************************************)
MaxCalls == 1

SubmitEntries == {e \in StaleEntries : e.id \in {1, 5, 6}}

SubmitCalls ==
    {[op |-> op, id |-> 5] : op \in {"approve_submission", "reject_submission"}}

SubInit ==
    /\ now = ClockStart
    /\ cacheEnabled = FALSE
    /\ mode = "memory"
    /\ backend = EmptyMap
    /\ store = [entries |-> SubmitEntries,
                relations |-> {r \in StaleRelations : r.from_id = 5}]
    /\ procs = {}
    /\ task = [p \in Procs |-> MgrIdle]
    /\ CacheIdle
    /\ KeyIdle
    /\ CallIdle
    /\ LockIdle

SubNext ==
    \/ \E p \in Procs, c \in SubmitCalls :
          /\ task[p].calls < MaxCalls
          /\ MgrBegin(p, c)
    \/ \E p \in Procs, dbOk \in BOOLEAN : MgrStatement(p, dbOk)
    \/ \E p \in Procs : MgrCancel(p)
    \/ \E p \in Procs : MgrFinish(p)

SpecSubmit == SubInit /\ [][SubNext]_vars

\* the state of the submission's entry, of its relation and of the entry
\* the relation leads to
SubmissionParts ==
    LET entry(id) == IF \E e \in store.entries : e.id = id
                     THEN (CHOOSE e \in store.entries : e.id = id).status
                     ELSE <<"d", "e", "l", "e", "t", "e", "d">>
        rel == IF \E r \in store.relations : r.id = 5
               THEN (CHOOSE r \in store.relations : r.id = 5).status
               ELSE <<"d", "e", "l", "e", "t", "e", "d">>
    IN {entry(5), rel, entry(6)}

\* C29: when no approve_submission or reject_submission is running, the
\* submission's entry, its relations and its related entries are all
\* pending, all enabled or all deleted.
C29_AllOrNothing ==
    (\A p \in Procs : task[p].pc # "w_run") => Cardinality(SubmissionParts) = 1


(***************************************************************************)
(* The CSV import: import_csv reads the records in file order, collects    *)
(* main entries with their definitions, and inserts them batch by batch.   *)
(* The batch size of the source is 5000; it is scaled down here so that    *)
(* files below, at and above a multiple of it are within reach.            *)
(***************************************************************************)
INSERT_BATCH_SIZE == 2
MaxCsvRows == 5

TYPE_ENTRY == "-"
TYPE_DEF == "^"

\* the Entry read_entry returns for a well-formed record of the line
CsvEntry(line, entry_type) ==
    [line |-> line, entry_type |-> entry_type, definitions |-> <<>>]

\* insert_entries, lines 297-346: the definitions of each main entry, each
\* followed by its relation
RECURSIVE InsertDefinitions(_, _, _, _, _)
InsertDefinitions(db, entries, ids, i, j) ==
    IF i > Len(entries) THEN db
    ELSE IF j > Len(entries[i].definitions)
    THEN InsertDefinitions(db, entries, ids, i + 1, 1)
    ELSE LET def == entries[i].definitions[j]
             to_id == Len(db.entries) + 1
         IN InsertDefinitions(
                [entries |-> Append(db.entries,
                                [id |-> to_id, line |-> def.line,
                                 weight |-> j - 1]),
                 relations |-> Append(db.relations,
                                [from_id |-> ids[i], to_id |-> to_id,
                                 weight |-> j - 1])],
                entries, ids, i, j + 1)

\* insert_entries when every statement succeeds: the main entries first,
\* with the weights line_start, line_start + 1, ..., then the definitions
insert_entries(db, entries, line_start) ==
    LET ids == [i \in 1..Len(entries) |-> Len(db.entries) + i]
        mains == [i \in 1..Len(entries) |->
                     [id |-> ids[i], line |-> entries[i].line,
                      weight |-> line_start + (i - 1)]]
    IN InsertDefinitions([db EXCEPT !.entries = @ \o mains], entries, ids, 1, 1)

\* import_csv, line 101
BatchFull(entries) == Len(entries) % INSERT_BATCH_SIZE = 0

NumMainKept(num_main, entries) == num_main

\* import_csv, line 103
NumMainAfter(num_main, entries) == num_main + Len(entries)

ImportFailed(st, e) == [st EXCEPT !.pc = "done", !.result = e]

\* import_csv, lines 73-110: one turn of the loop over the records; dbOk
\* says whether the first statement of insert_entries succeeds
ImportRecord(dbOk) ==
    /\ fy.pc = "loop"
    /\ fy.n < Len(fx)
    /\ LET record == fx[fy.n + 1]
           entry == CsvEntry(fy.n + 1, record)
           read == [fy EXCEPT !.n = @ + 1]
       IN fy' =
            IF fy.n = 0 /\ record # TYPE_ENTRY
            THEN ImportFailed(fy, Err("Validation", "line 1: first row should be of type '-'"))
            ELSE IF fy.entries = <<>>
            THEN [read EXCEPT !.entries = <<entry>>]
            ELSE IF entry.entry_type = TYPE_DEF
            THEN [read EXCEPT
                    !.entries[Len(fy.entries)].definitions = Append(@, entry),
                    !.num_defs = @ + 1]
            ELSE IF BatchFull(fy.entries)
            THEN IF dbOk
                 THEN [read EXCEPT
                         !.db = insert_entries(@, fy.entries, fy.num_main),
                         !.num_main = NumMainAfter(@, fy.entries),
                         !.entries = <<entry>>]
                 ELSE ImportFailed(read, Err("Db", "database error"))
            ELSE [read EXCEPT !.entries = Append(@, entry)]
    /\ UNCHANGED <<now, mode, backend, cacheVars, keyVars, searchVars, fx, luaLock>>

\* import_csv, lines 112-123: the flush of what is left and the return
ImportFlush(dbOk) ==
    /\ fy.pc = "loop"
    /\ fy.n = Len(fx)
    /\ fy' = IF fy.entries = <<>> THEN [fy EXCEPT !.pc = "done", !.result = Ok(TRUE)]
             ELSE IF dbOk
             THEN [fy EXCEPT !.db = insert_entries(@, fy.entries, fy.num_main),
                             !.pc = "done", !.result = Ok(TRUE)]
             ELSE ImportFailed(fy, Err("Db", "database error"))
    /\ UNCHANGED <<now, mode, backend, cacheVars, keyVars, searchVars, fx, luaLock>>

\* the files: column 0 of each record; the state at the top of import_csv
\* with an empty database
ImInit ==
    /\ now = ClockStart
    /\ mode = "memory"
    /\ backend = EmptyMap
    /\ CacheIdle
    /\ KeyIdle
    /\ SearchIdle
    /\ LockIdle
    /\ fx \in SeqsUpTo({TYPE_ENTRY, TYPE_DEF}, MaxCsvRows)
    /\ fy = [pc |-> "loop", n |-> 0, entries |-> <<>>, num_main |-> 0,
             num_defs |-> 0, db |-> [entries |-> <<>>, relations |-> <<>>],
             result |-> None]

ImNext ==
    \/ \E dbOk \in BOOLEAN : ImportRecord(dbOk)
    \/ \E dbOk \in BOOLEAN : ImportFlush(dbOk)

SpecImport == ImInit /\ [][ImNext]_vars

\* the lines of the main rows, in file order
MainLines == SelectSeq([n \in 1..Len(fx) |-> n], LAMBDA n : fx[n] = TYPE_ENTRY)

\* the line of the nearest main row before a line
MainBefore(n) ==
    CHOOSE m \in 1..n : fx[m] = TYPE_ENTRY /\ \A k \in (m + 1)..n : fx[k] # TYPE_ENTRY

\* the stored entries of a line
StoredOf(n) == {i \in 1..Len(fy.db.entries) : fy.db.entries[i].line = n}

\* C30: when import_csv returns Ok, every main row and every definition row
\* is stored exactly once, every definition has exactly one relation, from
\* the nearest main row before it, and the main rows carry the weights
\* 0, 1, 2, ... in file order, whatever the number of main rows relative to
\* the batch size.
C30_ExactlyOnce ==
    (fy.pc = "done" /\ fy.result # None /\ fy.result.ok) =>
        /\ \A n \in 1..Len(fx) : Cardinality(StoredOf(n)) = 1
        /\ Len(fy.db.entries) = Len(fx)
        /\ \A k \in 1..Len(MainLines) :
              \A i \in StoredOf(MainLines[k]) : fy.db.entries[i].weight = k - 1
        /\ Len(fy.db.relations) = Len(fx) - Len(MainLines)
        /\ \A n \in 1..Len(fx) :
              fx[n] = TYPE_DEF =>
                 \A i \in StoredOf(n) :
                    LET rels == {r \in 1..Len(fy.db.relations) :
                                    fy.db.relations[r].to_id = fy.db.entries[i].id}
                    IN /\ Cardinality(rels) = 1
                       /\ \A r \in rels :
                             \A m \in StoredOf(MainBefore(n)) :
                                fy.db.relations[r].from_id = fy.db.entries[m].id

\* an import that returned Ok after more main rows than one batch holds,
\* with a definition after the last row of the first batch
C30_Witness ==
    /\ fy.pc = "done" /\ fy.result # None /\ fy.result.ok
    /\ Len(MainLines) > INSERT_BATCH_SIZE
    /\ MainLines[INSERT_BATCH_SIZE] < Len(fx)
    /\ fx[MainLines[INSERT_BATCH_SIZE] + 1] = TYPE_DEF
    /\ Len(fy.db.relations) >= 1

====
